---- MODULE Spec2Model ----
(***************************************************************************)
(* Verification model of dreambot's worker/routing substrate:              *)
(*   - NatsManager (src/src/dreambot/shared/nats.py): boot, the per-worker *)
(*     subscribe/pump loop, publish, shutdown;                             *)
(*   - DreambotWorkerBase.send_message (src/src/dreambot/shared/worker.py);*)
(*   - the backends' callback_receive_workload (gpt, commands, a1111,      *)
(*     invokeai) and the InvokeAI push-channel handlers.                   *)
(*                                                                         *)
(* A frontend worker "fe" (IRC) and a backend worker "be", whose family is *)
(* the variable kind, are attached to the single JetStream work-queue      *)
(* stream.  Two specifications are given:                                  *)
(*   Spec         NatsManager with workers whose receive may return or     *)
(*                raise anything (the contract of DreambotWorkerBase);     *)
(*   SpecBackend  the concrete backends behind the pump of "be", the       *)
(*                frontend dispatching requests and the stream collecting  *)
(*                the replies addressed to it.                             *)
(***************************************************************************)
EXTENDS Integers, Sequences, FiniteSets, TLC

----------------------------------------------------------------------------
(* Bounds of the model *)

\* requests the frontend dispatches
MaxRequests == 1
\* characters of a worker's name and of its subname (SpecAddress)
MaxNameLen == 2
\* calls of NatsManager.publish (SpecSend)
MaxSends == 2
\* envelopes published for one request (SpecKeys)
MaxReplies == 3
\* characters of reply-to, of channel and of user (SpecGptKey)
MaxFieldLen == 2
\* requests the GPT backend handles (SpecGpt)
MaxGptRequests == 3
\* characters of the text of a PRIVMSG (SpecIrc)
MaxTextLen == 4
\* PRIVMSG lines the IRC frontend handles (SpecIrc)
MaxIrcLines == 1
\* numerics 443 the IRC server answers with (SpecIrcBoot)
MaxRenicks == 2
\* calls of FrontendIRC.shutdown (SpecIrcBoot)
MaxShutdowns == 2
\* acknowledgements of one subscribe task (SpecNatsLife)
MaxAcks == 2
\* runs of characters and line breaks in one reply (SpecSplit)
MaxTokens == 3
\* replies the IRC frontend receives (SpecRender)
MaxRenders == 1
\* characters of the lines enumerated in full (SpecParse)
MaxLineLen == 4
\* characters of the filenames cleaned (SpecClean)
MaxFileLen == 3
MaxTriggers == 2
\* f_namemax of the output directory's filesystem (SpecClean)
NameMax == 6
\* messages ever published on the stream
MaxMsgs == 3
\* of them, messages that arrive from other processes (Spec)
MaxArrivals == 2
\* ack-wait expiries (redeliveries) the broker performs
MaxRedeliver == 1
\* InvokeAI sessions the service hands out
MaxSessions == 1
\* subscription attempts the broker rejects with BadRequest
MaxRejects == 2

----------------------------------------------------------------------------
(* Vocabulary *)

Workers == {"fe", "be"}
BackendKinds == {"gpt", "commands", "a1111", "invokeai"}
Sessions == 1..MaxSessions

\* what the prompt makes the argument parser do
Prompts == {"ok", "help", "bad"}

\* the reply fields an envelope may carry
ReplyFields == {"reply-text", "reply-image", "reply-none", "error", "usage"}

\* An envelope: ctx stands for the context fields (server, channel, user,
\* origin_message), which no code path below ever assigns; fields is the set
\* of reply keys present in the dict.
NoEnv == [ctx |-> 0, to |-> "", replyTo |-> "", prompt |-> "none", fields |-> {}]

\* values of worker_callback_result: "unset" before any message was
\* handled, "skipped" when the worker was not booted, "None"/"True"/"False"
\* for what the callback returned, "Raise" when it raised, "undecodable"
\* when json.loads raised on the payload
Returned == {"None", "True", "False"}

VARIABLES
    nm_state,        \* NatsManager: "init", "running", "failed", "closed"
    shutting_down,   \* NatsManager.shutting_down
    kind,            \* family of the backend worker
    address,         \* worker.address
    is_booted,       \* worker.is_booted
    pc,              \* position of each worker's subscribe task
    cur,             \* stream sequence number of the last message fetched
    subscribed,      \* the task holds a subscription (the local sub)
    message,         \* msg_dict handed to callback_receive_workload
    result,          \* outcome of the callback for the last message
    acks,            \* msg.ack() calls made for the last message
    sends,           \* publish attempts made by the running callback
    lost,            \* those of them that raised
    warnings,        \* logger.warning calls of subscribe, per worker
    rejects,         \* BadRequest rejections the broker gave, per worker
    published,       \* the stream: every envelope published, in order
    queue,           \* per consumer: sequence numbers ready for next_msg
    pending,         \* per consumer: delivered and not acknowledged
    acked,           \* sequence numbers removed from the stream by an ack
    redelivered,     \* ack-wait expiries so far
    nreq,            \* requests dispatched by the frontend so far
    sio_connected,   \* DreambotBackendInvokeAI.sio.connected
    request_cache,   \* DreambotBackendInvokeAI.request_cache
    last_completion, \* keys of DreambotBackendInvokeAI.last_completion
    session,         \* session id held by the running receive, 0 if none
    nsess,           \* sessions created by the service so far
    invoked,         \* sessions whose invoke PUT was accepted
    evErr,           \* sessions whose invocation_error event was handled
    evDone,          \* per session: state of graph_execution_state_complete
    handlerPubs,     \* per session: publish attempts of the handlers
    wk,              \* SpecAddress: (end, name, subname) of two workers
    wk_address,      \* SpecAddress: worker.address, <<>> before boot
    wk_durable,      \* SpecAddress: durable/queue-group name, <<>> before
    snd_address,     \* SpecSend: worker.address of the sending worker
    snd_msg,         \* SpecSend: the caller's envelope (a dict)
    snd_calls,       \* SpecSend: send_message calls made with this envelope
    snd_log,         \* SpecSend: dicts handed to logger.debug by publish
    snd_wire,        \* SpecSend: (subject, payload) of every jets.publish
    kx_kind,         \* SpecKeys: family of the backend
    kx_req,          \* SpecKeys: the request dict as it was delivered
    kx_msg,          \* SpecKeys: the dict receive and the handlers work on
    kx_pc,           \* SpecKeys: "received", "waiting" (InvokeAI), "done"
    kx_out,          \* SpecKeys: the dicts published, in order
    gk_req,          \* SpecGptKey: (reply-to, channel, user) of two requests
    gk_key,          \* SpecGptKey: the cache key of each, <<>> before
    conversation_cache, \* SpecGpt: cache key -> the turns of the conversation
    gp_last,         \* SpecGpt: the request handled last, <<>> before
    gp_context,      \* SpecGpt: the turns handed to the completion call
    gp_reply,        \* SpecGpt: the reply field set and its value
    gp_n,            \* SpecGpt: requests handled
    irc_msg,         \* SpecIrc: the PRIVMSG handled last, <<>> before
    irc_dispatched,  \* SpecIrc: envelopes handed to callback_send_workload
    irc_raised,      \* SpecIrc: the exception that left the handler, or ""
    irc_out,         \* SpecIrc: PRIVMSG lines written back to the server
    irc_n,           \* SpecIrc: PRIVMSG lines handled
    ib_pc,           \* SpecIrcBoot: where the boot coroutine is
    should_reconnect, \* SpecIrcBoot: the flag shutdown clears
    ib_writer,       \* SpecIrcBoot: self.writer: none, open, closed, reset
    ib_reader_eof,   \* SpecIrcBoot: feed_eof was called on self.reader
    nickname,        \* SpecIrcBoot: self.server["nickname"]
    ib_line,         \* SpecIrcBoot: the line the read loop handled last
    ib_wrote,        \* SpecIrcBoot: the lines the last step handed to send_line
    ib_loss,         \* SpecIrcBoot: why the connection was lost last
    ib_shutdowns,    \* SpecIrcBoot: calls of shutdown so far
    ib_cli,           \* SpecIrcBoot: DreambotCLI.shutdown: none, cancelling, done
    ib_booted,        \* SpecIrcBoot: FrontendIRC.is_booted
    ib_pump,          \* SpecIrcBoot: the NATS pump's last reply envelope: none, skipped, sent, raised
    ib_delivered,     \* SpecIrcBoot: calls of callback_receive_workload by the pump
    ib_acks,          \* SpecIrcBoot: calls of msg.ack() by the pump
    ns_boot,         \* SpecNatsLife: NatsManager.boot: init, gathering, ended, failed
    ns_conn,         \* SpecNatsLife: self.nats: none, open, closed
    ns_task,         \* SpecNatsLife: per worker, the state of its subscribe task
    ns_shutdown,     \* SpecNatsLife: NatsManager.shutdown: idle, sleeping, done
    ns_closed_by,    \* SpecNatsLife: the coroutine that closed the connection
    ns_unacked,      \* SpecNatsLife: workers whose message in flight was dropped
    ns_acks,          \* SpecNatsLife: per worker, acknowledgements sent
    sp_full_ident,   \* SpecSplit: len(self.full_ident)
    sp_text,         \* SpecSplit: the reply: runs of characters and line breaks
    sp_width,        \* SpecSplit: bytes of one character of the reply in UTF-8
    sp_channel,      \* SpecSplit: len(message["channel"])
    sp_chunks,       \* SpecSplit: what split_lines returned
    sp_done,          \* SpecSplit: split_lines has run
    rd_writer,       \* SpecRender: self.writer: none, open, or lost (the connection is gone)
    rd_env,          \* SpecRender: the reply envelope callback_receive_workload was called with
    rd_result,       \* SpecRender: how callback_receive_workload ended: True or raised
    rd_out,          \* SpecRender: the PRIVMSG commands sent for rd_env
    rd_n,             \* SpecRender: the replies received
    pl_line,         \* SpecParse: the line handed to Message.parse_line, as its characters
    pl_result,       \* SpecParse: what parse_line returned, or that it raised
    pl_done,          \* SpecParse: parse_line has run
    cf_name,         \* SpecClean: the filename handed to clean_filename, as its characters
    cf_replace,      \* SpecClean: the characters of the replace argument
    cf_once,         \* SpecClean: clean_filename(cf_name)
    cf_twice,        \* SpecClean: clean_filename(cf_once)
    cf_calls,         \* SpecClean: the calls of clean_filename made
    tg_triggers,     \* SpecTrig: options["triggers"]
    tg_text,         \* SpecTrig: params[1] of the PRIVMSG
    tg_calls,        \* SpecTrig: the triggers callback_send_workload was called for, in order
    tg_done          \* SpecTrig: irc_received_privmsg has returned

natsVars == <<nm_state, shutting_down, address, pc, cur, subscribed, message,
              result, acks, sends, lost, warnings, rejects>>
busVars == <<published, queue, pending, acked, redelivered, nreq>>
invVars == <<sio_connected, request_cache, last_completion, session, nsess,
             invoked, evErr, evDone, handlerPubs>>
\* the variables of the specifications of single functions, declared with
\* them below
addrVars == <<wk, wk_address, wk_durable>>
sendVars == <<snd_address, snd_msg, snd_calls, snd_log, snd_wire>>
keysVars == <<kx_kind, kx_req, kx_msg, kx_pc, kx_out>>
gptKeyVars == <<gk_req, gk_key>>
gptVars == <<conversation_cache, gp_last, gp_context, gp_reply, gp_n>>
ircVars == <<irc_msg, irc_dispatched, irc_raised, irc_out, irc_n>>
ircBootVars ==
    <<ib_pc, should_reconnect, ib_writer, ib_reader_eof, nickname, ib_line,
      ib_wrote, ib_loss, ib_shutdowns, ib_cli, ib_booted, ib_pump,
      ib_delivered, ib_acks>>
natsLifeVars ==
    <<ns_boot, ns_conn, ns_task, ns_shutdown, ns_closed_by, ns_unacked,
      ns_acks>>
splitVars ==
    <<sp_full_ident, sp_text, sp_width, sp_channel, sp_chunks, sp_done>>
renderVars == <<rd_writer, rd_env, rd_result, rd_out, rd_n>>
parseVars == <<pl_line, pl_result, pl_done>>
cleanVars == <<cf_name, cf_replace, cf_once, cf_twice, cf_calls>>
trigVars == <<tg_triggers, tg_text, tg_calls, tg_done>>
auxVars ==
    <<addrVars, sendVars, keysVars, gptKeyVars, gptVars, ircVars, ircBootVars, natsLifeVars, splitVars, renderVars, parseVars, cleanVars,
      trigVars>>
progVars == <<natsVars, busVars, invVars, kind, is_booted>>
vars == <<progVars, auxVars>>
notAddr ==
    <<progVars, sendVars, keysVars, gptKeyVars, gptVars, ircVars, ircBootVars, natsLifeVars, splitVars, renderVars, parseVars, cleanVars,
      trigVars>>
notSend ==
    <<progVars, addrVars, keysVars, gptKeyVars, gptVars, ircVars, ircBootVars, natsLifeVars, splitVars, renderVars, parseVars, cleanVars,
      trigVars>>
notKeys ==
    <<progVars, addrVars, sendVars, gptKeyVars, gptVars, ircVars, ircBootVars, natsLifeVars, splitVars, renderVars, parseVars, cleanVars,
      trigVars>>
notGptKey ==
    <<progVars, addrVars, sendVars, keysVars, gptVars, ircVars, ircBootVars, natsLifeVars, splitVars, renderVars, parseVars, cleanVars,
      trigVars>>
notIrc ==
    <<progVars, addrVars, sendVars, keysVars, gptKeyVars, gptVars, ircBootVars, natsLifeVars, splitVars, renderVars, parseVars, cleanVars,
      trigVars>>
notGpt ==
    <<progVars, addrVars, sendVars, keysVars, gptKeyVars, ircVars, ircBootVars, natsLifeVars, splitVars, renderVars, parseVars, cleanVars,
      trigVars>>
notIrcBoot ==
    <<progVars, addrVars, sendVars, keysVars, gptKeyVars, gptVars, ircVars, natsLifeVars, splitVars, renderVars, parseVars, cleanVars,
      trigVars>>
notNatsLife ==
    <<progVars, addrVars, sendVars, keysVars, gptKeyVars, gptVars, ircVars, ircBootVars, splitVars, renderVars, parseVars, cleanVars,
      trigVars>>
notSplit ==
    <<progVars, addrVars, sendVars, keysVars, gptKeyVars, gptVars, ircVars, ircBootVars, natsLifeVars, renderVars, parseVars, cleanVars,
      trigVars>>
notRender ==
    <<progVars, addrVars, sendVars, keysVars, gptKeyVars, gptVars, ircVars, ircBootVars, natsLifeVars, splitVars, parseVars, cleanVars,
      trigVars>>
notParse ==
    <<progVars, addrVars, sendVars, keysVars, gptKeyVars, gptVars, ircVars, ircBootVars, natsLifeVars, splitVars, renderVars, cleanVars,
      trigVars>>
notClean ==
    <<progVars, addrVars, sendVars, keysVars, gptKeyVars, gptVars, ircVars, ircBootVars, natsLifeVars, splitVars, renderVars, parseVars,
      trigVars>>
notTrig ==
    <<progVars, addrVars, sendVars, keysVars, gptKeyVars, gptVars, ircVars, ircBootVars, natsLifeVars, splitVars, renderVars, parseVars, cleanVars>>

----------------------------------------------------------------------------
(* Worker identity and addresses *)

WorkerEnd(w) == IF w = "fe" THEN "frontend" ELSE "backend"

WorkerName(w) == IF w = "fe" THEN "irc" ELSE kind

\* neither worker of this configuration has a subname
WorkerSubname(w) == ""

\* NatsManager.get_queue_name; the subnames used here contain no "."
get_queue_name(w) ==
    IF WorkerSubname(w) # ""
    THEN WorkerName(w) \o "." \o WorkerSubname(w)
    ELSE WorkerName(w)

\* NatsManager.get_subject
get_subject(w) == WorkerEnd(w) \o "." \o get_queue_name(w)

----------------------------------------------------------------------------
(* The stream *)

\* json.loads(json.dumps(e)): a dict of string keys and string values comes
\* back with the same keys and values, as a new object
Decode(e) == [ctx |-> e.ctx, to |-> e.to, replyTo |-> e.replyTo,
              prompt |-> e.prompt, fields |-> e.fields]

\* the consumers whose subject filter matches subject s
Consumers(s) == {w \in Workers : get_subject(w) = s}

\* the stream stores envelope e under the next sequence number and makes
\* it deliverable to the consumer filtering on its subject e.to
Store(e) ==
    /\ Len(published) < MaxMsgs
    /\ published' = Append(published, e)
    /\ queue' = [w \in Workers |->
                    IF w \in Consumers(e.to)
                    THEN Append(queue[w], Len(published) + 1)
                    ELSE queue[w]]

\* NatsManager.publish: JetStream publish of envelope e on subject e.to
publish(e) ==
    /\ nm_state = "running"
    /\ Store(e)

\* a publish that raised: nothing reaches the stream
PublishFailed == UNCHANGED <<published, queue>>

\* DreambotWorkerBase.send_message, lines 62-64: the to/reply-to swap
SwapMutNone(w, e) == e

Swap(w, e) ==
    IF e.to = address[w]
    THEN [e EXCEPT !.to = e.replyTo, !.replyTo = address[w]]
    ELSE e

\* the broker's ack-wait expires for a message that was delivered to w and
\* not acknowledged, and that w is not busy with: it is deliverable again
Redeliver(w) ==
    /\ redelivered < MaxRedeliver
    /\ \E i \in pending[w] :
        /\ pc[w] \in {"callback", "posted", "put_ok", "marked", "swapped",
                      "returned"} => i # cur[w]
        /\ queue' = [queue EXCEPT ![w] = Append(@, i)]
        /\ pending' = [pending EXCEPT ![w] = @ \ {i}]
    /\ redelivered' = redelivered + 1
    /\ UNCHANGED <<natsVars, invVars, kind, auxVars, is_booted, published, acked,
                   nreq>>

----------------------------------------------------------------------------
(* Initial state: objects constructed, nothing booted *)

Init0 ==
    /\ nm_state = "init"
    /\ shutting_down = FALSE
    /\ address = [w \in Workers |-> ""]
    /\ is_booted = [w \in Workers |-> FALSE]
    /\ pc = [w \in Workers |-> "idle"]
    /\ cur = [w \in Workers |-> 0]
    /\ subscribed = [w \in Workers |-> FALSE]
    /\ message = [w \in Workers |-> NoEnv]
    /\ result = [w \in Workers |-> "unset"]
    /\ acks = [w \in Workers |-> 0]
    /\ sends = [w \in Workers |-> 0]
    /\ lost = [w \in Workers |-> 0]
    /\ warnings = [w \in Workers |-> 0]
    /\ rejects = [w \in Workers |-> 0]
    /\ published = <<>>
    /\ queue = [w \in Workers |-> <<>>]
    /\ pending = [w \in Workers |-> {}]
    /\ acked = {}
    /\ redelivered = 0
    /\ nreq = 0
    /\ sio_connected = FALSE
    /\ request_cache = [s \in Sessions |-> NoEnv]
    /\ last_completion = {}
    /\ session = 0
    /\ nsess = 0
    /\ invoked = {}
    /\ evErr = {}
    /\ evDone = [s \in Sessions |-> "no"]
    /\ handlerPubs = [s \in Sessions |-> 0]

\* the variables of SpecAddress while another specification runs
AddressIdle == wk = <<>> /\ wk_address = <<>> /\ wk_durable = <<>>

\* the variables of SpecSend while another specification runs
SendIdle ==
    /\ snd_address = "" /\ snd_msg = <<>> /\ snd_calls = 0
    /\ snd_log = <<>> /\ snd_wire = <<>>

\* the variables of SpecKeys while another specification runs
KeysIdle ==
    /\ kx_kind = "" /\ kx_req = <<>> /\ kx_msg = <<>> /\ kx_pc = ""
    /\ kx_out = <<>>

\* the variables of SpecGptKey while another specification runs
GptKeyIdle == gk_req = <<>> /\ gk_key = <<>>

\* the variables of SpecGpt while another specification runs
GptIdle ==
    /\ conversation_cache = <<>> /\ gp_last = <<>> /\ gp_context = <<>>
    /\ gp_reply = <<>> /\ gp_n = 0

\* the variables of SpecIrc while another specification runs
IrcIdle ==
    /\ irc_msg = <<>> /\ irc_dispatched = <<>> /\ irc_raised = ""
    /\ irc_out = <<>> /\ irc_n = 0

\* the variables of SpecIrcBoot while another specification runs
IrcBootIdle ==
    /\ ib_pc = "idle"
    /\ should_reconnect = TRUE
    /\ ib_writer = "none"
    /\ ib_reader_eof = FALSE
    /\ nickname = <<>>
    /\ ib_line = ""
    /\ ib_wrote = <<>>
    /\ ib_loss = "none"
    /\ ib_shutdowns = 0
    /\ ib_cli = "none"
    /\ ib_booted = FALSE
    /\ ib_pump = "none"
    /\ ib_delivered = 0
    /\ ib_acks = 0

\* the variables of SpecNatsLife while another specification runs
NatsLifeIdle ==
    /\ ns_boot = "init"
    /\ ns_conn = "none"
    /\ ns_task = <<>>
    /\ ns_shutdown = "idle"
    /\ ns_closed_by = ""
    /\ ns_unacked = {}
    /\ ns_acks = <<>>

\* the variables of SpecSplit while another specification runs
SplitIdle ==
    /\ sp_full_ident = 0
    /\ sp_text = <<>>
    /\ sp_width = 0
    /\ sp_channel = 0
    /\ sp_chunks = <<>>
    /\ sp_done = FALSE

\* the variables of SpecRender while another specification runs
RenderIdle ==
    /\ rd_writer = "none"
    /\ rd_env = <<>>
    /\ rd_result = "pending"
    /\ rd_out = <<>>
    /\ rd_n = 0

\* the variables of SpecParse while another specification runs
ParseIdle ==
    /\ pl_line = <<>>
    /\ pl_result = <<>>
    /\ pl_done = FALSE

\* the variables of SpecClean while another specification runs
CleanIdle ==
    /\ cf_name = <<>>
    /\ cf_replace = {}
    /\ cf_once = <<>>
    /\ cf_twice = <<>>
    /\ cf_calls = 0

\* the variables of SpecTrig while another specification runs
TrigIdle ==
    /\ tg_triggers = <<>>
    /\ tg_text = <<>>
    /\ tg_calls = <<>>
    /\ tg_done = FALSE

AuxIdle ==
    /\ AddressIdle /\ SendIdle /\ KeysIdle /\ GptKeyIdle /\ GptIdle
    /\ IrcIdle
    /\ IrcBootIdle
    /\ NatsLifeIdle
    /\ SplitIdle
    /\ RenderIdle
    /\ ParseIdle
    /\ CleanIdle
    /\ TrigIdle

\* Spec: the family of the backend worker plays no part
Init == Init0 /\ kind = "commands" /\ AuxIdle

\* SpecBackend: any of the backend families
InitBackend == Init0 /\ kind \in BackendKinds /\ AuxIdle

----------------------------------------------------------------------------
(* NatsManager.boot and NatsManager.shutdown *)

\* nats.connect succeeded: every worker gets its address and a subscribe task
NatsBoot ==
    /\ nm_state = "init"
    /\ nm_state' = "running"
    /\ address' = [w \in Workers |-> get_subject(w)]
    /\ pc' = [w \in Workers |-> "top"]
    /\ UNCHANGED <<shutting_down, cur, subscribed, message, result, acks, sends, lost,
                   warnings, rejects, busVars, invVars, kind, auxVars,
                   is_booted>>

\* the same with the loop over the workers run before the failure is seen
NatsBootNoServersMutAssign ==
    /\ nm_state = "init"
    /\ nm_state' = "failed"
    /\ address' = [w \in Workers |-> get_subject(w)]
    /\ UNCHANGED <<shutting_down, pc, cur, subscribed, message, result, acks,
                   sends, lost, warnings, rejects, busVars, invVars,
                   kind, auxVars, is_booted>>

\* nats.connect raised NoServersError: logged, boot returns
NatsBootNoServers ==
    /\ nm_state = "init"
    /\ nm_state' = "failed"
    /\ UNCHANGED <<shutting_down, address, pc, cur, subscribed, message, result, acks,
                   sends, lost, warnings, rejects, busVars, invVars,
                   kind, auxVars, is_booted>>

\* shutdown: the flag is set and every subscribe task is cancelled at the
\* await it is suspended in (CancelledError is not an Exception, so none of
\* the handlers in subscribe or in the callbacks catches it)
Shutdown ==
    /\ nm_state = "running"
    /\ shutting_down' = TRUE
    /\ pc' = [w \in Workers |-> "cancelled"]
    /\ nm_state' = "closed"
    /\ UNCHANGED <<address, cur, subscribed, message, result, acks, sends, lost, warnings,
                   rejects, busVars, invVars, kind, auxVars, is_booted>>

\* the worker's own boot task reaches the point where it sets is_booted
\* (for InvokeAI: after sio.connect returned)
WorkerBoot(w) ==
    /\ ~is_booted[w]
    /\ is_booted' = [is_booted EXCEPT ![w] = TRUE]
    /\ sio_connected' = IF w = "be" /\ kind = "invokeai" THEN TRUE
                        ELSE sio_connected
    /\ UNCHANGED <<natsVars, busVars, kind, auxVars, request_cache, last_completion,
                   session, nsess, invoked, evErr, evDone, handlerPubs>>

----------------------------------------------------------------------------
(* NatsManager.subscribe: one pass of the outer loop, lines 103-124 and    *)
(* 160-170, by what the broker answers                                     *)

\* BadRequest rejections the broker has given so far
Refusals == rejects["fe"] + rejects["be"]

\* jets.subscribe returned a subscription: enter the pump loop
SubscribeOk(w) ==
    /\ pc[w] = "top"
    /\ ~shutting_down
    /\ pc' = [pc EXCEPT ![w] = "loop"]
    /\ subscribed' = [subscribed EXCEPT ![w] = TRUE]
    /\ UNCHANGED <<nm_state, shutting_down, address, cur, message, result,
                   acks, sends, lost, warnings, rejects, busVars,
                   invVars, kind, auxVars, is_booted>>

\* BadRequestError (the durable consumer is still bound to a previous
\* instance): one warning, then asyncio.sleep(5)
SubscribeRejectedMutProceed(w) ==
    /\ pc[w] = "top"
    /\ ~shutting_down
    /\ Refusals < MaxRejects
    /\ rejects' = [rejects EXCEPT ![w] = @ + 1]
    /\ warnings' = [warnings EXCEPT ![w] = @ + 1]
    /\ pc' = [pc EXCEPT ![w] = "loop"]
    /\ UNCHANGED <<nm_state, shutting_down, address, cur, subscribed, message, result,
                   acks, sends, lost, busVars, invVars, kind, auxVars,
                   is_booted>>

SubscribeRejected(w) ==
    /\ pc[w] = "top"
    /\ ~shutting_down
    /\ Refusals < MaxRejects
    /\ rejects' = [rejects EXCEPT ![w] = @ + 1]
    /\ warnings' = [warnings EXCEPT ![w] = @ + 1]
    /\ pc' = [pc EXCEPT ![w] = "sleep5"]
    /\ UNCHANGED <<nm_state, shutting_down, address, cur, subscribed, message, result,
                   acks, sends, lost, busVars, invVars, kind, auxVars,
                   is_booted>>

\* any other exception: logged as an error, then asyncio.sleep(5)
SubscribeFailed(w) ==
    /\ pc[w] = "top"
    /\ ~shutting_down
    /\ pc' = [pc EXCEPT ![w] = "sleep5"]
    /\ UNCHANGED <<nm_state, shutting_down, address, cur, subscribed, message, result,
                   acks, sends, lost, warnings, rejects, busVars, invVars,
                   kind, auxVars, is_booted>>

\* the sleep of line 165 or 170 is over: back to the loop test of line 103
Retry(w) ==
    /\ pc[w] = "sleep5"
    /\ pc' = [pc EXCEPT ![w] = "top"]
    /\ UNCHANGED <<nm_state, shutting_down, address, cur, subscribed, message, result,
                   acks, sends, lost, warnings, rejects, busVars,
                   invVars, kind, auxVars, is_booted>>

----------------------------------------------------------------------------
(* NatsManager.subscribe: the pump loop, lines 126-158 *)

InCallback == {"callback", "posted", "put_ok", "marked", "swapped"}

\* the pump is at "msg = await sub.next_msg()": the previous message has
\* been dealt with completely
CanFetchMutTask(w) == pc[w] \in {"loop", "callback"}

CanFetch(w) == pc[w] = "loop"

\* line 140: the message goes to the worker only when it is booted
ShouldDeliverMutAlways(w) == TRUE

ShouldDeliver(w) == is_booted[w]

\* a payload is bytes; "not-json" in the place of the prompt marks bytes
\* that json.loads rejects
IsJson(e) == e.prompt # "not-json"

\* the handler of line 156 (an exception of next_msg, decode or json.loads)
\* logs and calls no msg.ack()
DecodeErrorAcksMutTrue == TRUE

DecodeErrorAcks == FALSE

\* where the pump is after a message was dealt with: every exception of
\* the callback and of msg.ack() is caught inside the while loop (lines 149
\* and 156), so the loop test of line 126 is next
PumpAfterMutEscape(outcome) ==
    IF outcome = "ack-raised" THEN "sleep5" ELSE "loop"

PumpAfter(outcome) == "loop"

\* line 147 and the handler of line 149: is msg.ack() called?
ShouldAckMutTrueOnly(r) == r = "True"

ShouldAck(r) == r # "False"

\* next_msg returned a message: decode it (json.loads raising is logged by
\* the handler of line 156 and the loop goes on), then either skip it
\* (worker not booted: sleep and continue, no ack) or enter
\* callback_receive_workload
Fetch(w) ==
    /\ CanFetch(w)
    /\ ~shutting_down
    /\ queue[w] # <<>>
    /\ LET i == Head(queue[w])
           acknowledged == ~IsJson(published[i]) /\ DecodeErrorAcks
       IN
        /\ queue' = [queue EXCEPT ![w] = Tail(@)]
        /\ pending' = [pending EXCEPT ![w] =
                           IF acknowledged THEN @ \ {i} ELSE @ \cup {i}]
        /\ acked' = IF acknowledged THEN acked \cup {i} ELSE acked
        /\ IF ~IsJson(published[i])
           THEN /\ result' = [result EXCEPT ![w] = "undecodable"]
                /\ pc' = [pc EXCEPT ![w] = PumpAfter("decode-error")]
                /\ UNCHANGED message
           ELSE IF ShouldDeliver(w)
           THEN /\ pc' = [pc EXCEPT ![w] = "callback"]
                /\ message' = [message EXCEPT ![w] = Decode(published[i])]
                /\ result' = [result EXCEPT ![w] = "None"]
           ELSE /\ result' = [result EXCEPT ![w] = "skipped"]
                /\ UNCHANGED <<pc, message>>
        /\ cur' = [cur EXCEPT ![w] = i]
    /\ acks' = [acks EXCEPT ![w] = 0]
    /\ sends' = [sends EXCEPT ![w] = 0]
    /\ lost' = [lost EXCEPT ![w] = 0]
    /\ UNCHANGED <<nm_state, shutting_down, address, subscribed, warnings,
                   rejects, published, redelivered, nreq,
                   invVars, kind, auxVars, is_booted>>

\* callback_receive_workload has returned or raised, lines 147-152, and
\* msg.ack() does not raise: one call when ShouldAck, none otherwise
Ack(w) ==
    /\ pc[w] = "returned"
    /\ LET ok == ShouldAck(result[w]) IN
        /\ acked' = IF ok THEN acked \cup {cur[w]} ELSE acked
        /\ pending' = IF ok THEN [pending EXCEPT ![w] = @ \ {cur[w]}]
                      ELSE pending
        /\ acks' = [acks EXCEPT ![w] = IF ok THEN 1 ELSE 0]
    /\ pc' = [pc EXCEPT ![w] = PumpAfter("returned")]
    /\ message' = [message EXCEPT ![w] = NoEnv]
    /\ sends' = [sends EXCEPT ![w] = 0]
    /\ lost' = [lost EXCEPT ![w] = 0]
    /\ UNCHANGED <<nm_state, shutting_down, address, cur, subscribed, result,
                   warnings, rejects, published, queue, redelivered,
                   nreq, invVars, kind, auxVars, is_booted>>

\* the same, when msg.ack() raises (the connection is being lost).  After
\* a returned value the handler of line 149 calls msg.ack() once more,
\* which succeeds or raises into the handler of line 156; after a raise of
\* the callback the failed call was already the one of line 152.
AckRaised(w) ==
    /\ pc[w] = "returned"
    /\ ShouldAck(result[w])
    /\ \E again \in BOOLEAN :
        LET ok == result[w] # "Raise" /\ again IN
        /\ acked' = IF ok THEN acked \cup {cur[w]} ELSE acked
        /\ pending' = IF ok THEN [pending EXCEPT ![w] = @ \ {cur[w]}]
                      ELSE pending
    /\ acks' = [acks EXCEPT ![w] = IF result[w] = "Raise" THEN 1 ELSE 2]
    /\ pc' = [pc EXCEPT ![w] = PumpAfter("ack-raised")]
    /\ message' = [message EXCEPT ![w] = NoEnv]
    /\ sends' = [sends EXCEPT ![w] = 0]
    /\ lost' = [lost EXCEPT ![w] = 0]
    /\ UNCHANGED <<nm_state, shutting_down, address, cur, subscribed, result,
                   warnings, rejects, published, queue, redelivered,
                   nreq, invVars, kind, auxVars, is_booted>>

----------------------------------------------------------------------------
(* Spec: workers as NatsManager sees them *)

\* some publisher puts an envelope on the subject of worker w
Arrive(w) ==
    /\ Len(published) < MaxArrivals
    /\ Store([ctx |-> 1, to |-> get_subject(w), replyTo |-> "peer",
              prompt |-> "ok", fields |-> {}])
    /\ UNCHANGED <<natsVars, pending, acked, redelivered, nreq, invVars,
                   kind, auxVars, is_booted>>

\* some publisher puts bytes that are no JSON on the subject of worker w
ArriveBytes(w) ==
    /\ Len(published) < MaxArrivals
    /\ Store([ctx |-> 1, to |-> get_subject(w), replyTo |-> "peer",
              prompt |-> "not-json", fields |-> {}])
    /\ UNCHANGED <<natsVars, pending, acked, redelivered, nreq, invVars,
                   kind, auxVars, is_booted>>

\* DreambotWorkerBase.callback_receive_workload: a subclass returns a
\* value or raises (the base class itself raises NotImplementedError)
Receive(w) ==
    /\ pc[w] = "callback"
    /\ \E r \in Returned \cup {"Raise"} :
        result' = [result EXCEPT ![w] = r]
    /\ pc' = [pc EXCEPT ![w] = "returned"]
    /\ UNCHANGED <<nm_state, shutting_down, address, cur, subscribed, message, acks,
                   sends, lost, warnings, rejects, busVars, invVars,
                   kind, auxVars, is_booted>>

Next ==
    \/ NatsBoot
    \/ NatsBootNoServers
    \/ Shutdown
    \/ \E w \in Workers : WorkerBoot(w)
    \/ \E w \in Workers : SubscribeOk(w)
    \/ \E w \in Workers : SubscribeRejected(w)
    \/ \E w \in Workers : SubscribeFailed(w)
    \/ \E w \in Workers : Retry(w)
    \/ \E w \in Workers : Arrive(w)
    \/ \E w \in Workers : Fetch(w)
    \/ \E w \in Workers : Receive(w)
    \/ \E w \in Workers : Ack(w)
    \/ \E w \in Workers : AckRaised(w)
    \/ \E w \in Workers : Redeliver(w)

Spec == Init /\ [][Next]_vars

\* SpecPump: the pump loop once jets.subscribe has returned, with payloads
\* of both kinds on the stream
NextPump ==
    \/ NatsBoot
    \/ Shutdown
    \/ \E w \in Workers : WorkerBoot(w)
    \/ \E w \in Workers : SubscribeOk(w)
    \/ \E w \in Workers : Arrive(w)
    \/ \E w \in Workers : ArriveBytes(w)
    \/ \E w \in Workers : Fetch(w)
    \/ \E w \in Workers : Receive(w)
    \/ \E w \in Workers : Ack(w)
    \/ \E w \in Workers : AckRaised(w)
    \/ \E w \in Workers : Redeliver(w)

SpecPump == Init /\ [][NextPump]_vars

----------------------------------------------------------------------------
(* SpecBackend: the frontend's requests *)

\* FrontendIRC.irc_received_privmsg: a triggered PRIVMSG becomes a request
\* envelope addressed to the backend, with the frontend as reply-to
Dispatch ==
    /\ is_booted["fe"]
    /\ address["fe"] # ""
    /\ nreq < MaxRequests
    /\ \E p \in Prompts :
        publish([ctx |-> nreq + 1, to |-> get_subject("be"),
                 replyTo |-> address["fe"], prompt |-> p, fields |-> {}])
    /\ nreq' = nreq + 1
    /\ UNCHANGED <<natsVars, pending, acked, redelivered, invVars, kind, auxVars,
                   is_booted>>

----------------------------------------------------------------------------
(* Backends whose receive completes within the call: gpt, commands, a1111 *)

\* ErrorCatchingArgumentParser: error() and exit() raise ValueError where
\* argparse would end the process with SystemExit
parse_failure_MutExit == "SystemExit"

parse_failure == "ValueError"

\* parsing this prompt leaves receive with an exception that no handler of
\* receive or of the pump catches (SystemExit is not an Exception)
ParserExits(prompt) == prompt = "bad" /\ parse_failure = "SystemExit"

\* the interpreter exits: the task of worker w is gone
ProcessExit(w) ==
    /\ pc' = [pc EXCEPT ![w] = "exited"]
    /\ UNCHANGED <<message, result, sends, lost, published, queue>>

\* the reply key the receive of these backends sets, by what the parser
\* did with the prompt and by the outcome of the upstream call
ReplyKey(k, prompt, upstream) ==
    CASE prompt = "help" -> "reply-text"
      [] prompt = "bad" -> "error"
      [] k = "commands" -> "reply-text"
      [] upstream # "ok" -> "error"
      [] k = "a1111" -> "reply-image"
      [] OTHER -> "reply-text"

\* what receive returns after send_message, whose publish raised or not:
\* the exception is logged inside send_message and receive returns True
AfterSend(sent) == "True"

\* send_message(e) as the last statement before "return res": swap, one
\* publish attempt, then the return
SendAndReturn(w, e, res) ==
    /\ \E sent \in BOOLEAN :
        /\ IF sent THEN publish(Swap(w, e)) ELSE PublishFailed
        /\ lost' = [lost EXCEPT ![w] = IF sent THEN @ ELSE @ + 1]
        /\ result' = [result EXCEPT ![w] =
                         IF res = "True" THEN AfterSend(sent) ELSE res]
    /\ sends' = [sends EXCEPT ![w] = @ + 1]
    /\ pc' = [pc EXCEPT ![w] = "returned"]

\* DreambotBackendGPT / Commands / A1111 .callback_receive_workload
ReceiveSync ==
    /\ pc["be"] = "callback"
    /\ kind \in {"gpt", "commands", "a1111"}
    /\ IF ParserExits(message["be"].prompt)
       THEN ProcessExit("be")
       ELSE \E upstream \in {"ok", "error"} :
               LET m == message["be"]
                   e == [m EXCEPT !.fields =
                            @ \cup {ReplyKey(kind, m.prompt, upstream)}]
               IN /\ SendAndReturn("be", e, "True")
                  /\ message' = [message EXCEPT !["be"] = Swap("be", e)]
    /\ UNCHANGED <<nm_state, shutting_down, address, cur, subscribed, acks, warnings,
                   rejects, pending, acked, redelivered, nreq,
                   invVars, kind, auxVars, is_booted>>

----------------------------------------------------------------------------
(* InvokeAI backend: callback_receive_workload *)

\* Once line 108 has run, the dict named message in receive and the value
\* request_cache[session] are one object: every assignment below is made
\* to request_cache[session] and is seen by the push-channel handlers.

\* line 94: the value returned when the push channel is not connected
NotConnectedResultMutAck == "True"

NotConnectedResult == "False"

\* paths of receive that reply at once: --help (UsageException), invalid
\* arguments (ValueError), push channel not connected (lines 91-94), and
\* a rejected POST of the graph (lines 102-105)
InvReplyNow ==
    /\ pc["be"] = "callback"
    /\ kind = "invokeai"
    /\ IF ParserExits(message["be"].prompt)
       THEN ProcessExit("be")
       ELSE LET m == message["be"]
                key == IF m.prompt = "help" THEN "reply-text" ELSE "error"
                res == IF m.prompt = "ok" /\ ~sio_connected
                       THEN NotConnectedResult ELSE "True"
                e == [m EXCEPT !.fields = @ \cup {key}]
            IN /\ SendAndReturn("be", e, res)
               /\ message' = [message EXCEPT !["be"] = Swap("be", e)]
    /\ UNCHANGED <<nm_state, shutting_down, address, cur, subscribed, acks, warnings,
                   rejects, pending, acked, redelivered, nreq,
                   invVars, kind, auxVars, is_booted>>

\* the POST was accepted: line 108 records the envelope under the session
\* id of the response, line 112 subscribes to the session
InvPost ==
    /\ pc["be"] = "callback"
    /\ kind = "invokeai"
    /\ message["be"].prompt = "ok"
    /\ sio_connected
    /\ nsess < MaxSessions
    /\ nsess' = nsess + 1
    /\ session' = nsess + 1
    /\ request_cache' = [request_cache EXCEPT ![nsess + 1] = message["be"]]
    /\ message' = [message EXCEPT !["be"] = NoEnv]
    /\ pc' = [pc EXCEPT !["be"] = "posted"]
    /\ UNCHANGED <<nm_state, shutting_down, address, cur, subscribed, result, acks,
                   sends, lost, warnings, rejects, busVars, kind, auxVars,
                   is_booted, sio_connected, last_completion, invoked, evErr,
                   evDone, handlerPubs>>

\* lines 114-119: the invoke PUT was rejected
InvPutRejected ==
    /\ pc["be"] = "posted"
    /\ LET e == [request_cache[session] EXCEPT !.fields = @ \cup {"error"}]
       IN /\ SendAndReturn("be", e, "True")
          /\ request_cache' = [request_cache EXCEPT ![session] = Swap("be", e)]
    /\ session' = 0
    /\ UNCHANGED <<nm_state, shutting_down, address, cur, subscribed, message, acks,
                   warnings, rejects, pending, acked, redelivered,
                   nreq, kind, auxVars, is_booted, sio_connected, last_completion,
                   nsess, invoked, evErr, evDone, handlerPubs>>

\* lines 114-116: the invoke PUT was accepted; the service now runs the
\* session and will emit its events
InvPutAccepted ==
    /\ pc["be"] = "posted"
    /\ invoked' = invoked \cup {session}
    /\ pc' = [pc EXCEPT !["be"] = "put_ok"]
    /\ UNCHANGED <<nm_state, shutting_down, address, cur, subscribed, message, result,
                   acks, sends, lost, warnings, rejects, busVars,
                   kind, auxVars, is_booted, sio_connected, request_cache,
                   last_completion, session, nsess, evErr, evDone,
                   handlerPubs>>

\* line 121: message["reply-none"] = ...
InvMark ==
    /\ pc["be"] = "put_ok"
    /\ request_cache' = [request_cache EXCEPT
                            ![session].fields = @ \cup {"reply-none"}]
    /\ pc' = [pc EXCEPT !["be"] = "marked"]
    /\ UNCHANGED <<nm_state, shutting_down, address, cur, subscribed, message, result,
                   acks, sends, lost, warnings, rejects, busVars,
                   kind, auxVars, is_booted, sio_connected, last_completion, session,
                   nsess, invoked, evErr, evDone, handlerPubs>>

\* line 132, send_message lines 62-64: the swap, made in the shared dict
InvSwap ==
    /\ pc["be"] = "marked"
    /\ request_cache' = [request_cache EXCEPT
                            ![session] = Swap("be", request_cache[session])]
    /\ pc' = [pc EXCEPT !["be"] = "swapped"]
    /\ UNCHANGED <<nm_state, shutting_down, address, cur, subscribed, message, result,
                   acks, sends, lost, warnings, rejects, busVars,
                   kind, auxVars, is_booted, sio_connected, last_completion, session,
                   nsess, invoked, evErr, evDone, handlerPubs>>

\* send_message lines 66-70 and line 133: the dict as it is now is encoded
\* and published, then receive returns True
InvSend ==
    /\ pc["be"] = "swapped"
    /\ \E sent \in BOOLEAN :
        /\ IF sent THEN publish(request_cache[session]) ELSE PublishFailed
        /\ lost' = [lost EXCEPT !["be"] = IF sent THEN @ ELSE @ + 1]
        /\ result' = [result EXCEPT !["be"] = AfterSend(sent)]
    /\ sends' = [sends EXCEPT !["be"] = @ + 1]
    /\ pc' = [pc EXCEPT !["be"] = "returned"]
    /\ session' = 0
    /\ UNCHANGED <<nm_state, shutting_down, address, cur, subscribed, message, acks,
                   warnings, rejects, pending, acked, redelivered,
                   nreq, kind, auxVars, is_booted, sio_connected, request_cache,
                   last_completion, nsess, invoked, evErr, evDone,
                   handlerPubs>>

----------------------------------------------------------------------------
(* InvokeAI backend: the push channel and its handlers, which socketio *)
(* runs on its own thread, concurrently with receive                   *)

SioDisconnect ==
    /\ kind = "invokeai"
    /\ sio_connected
    /\ sio_connected' = FALSE
    /\ UNCHANGED <<natsVars, busVars, kind, auxVars, is_booted, request_cache,
                   last_completion, session, nsess, invoked, evErr, evDone,
                   handlerPubs>>

\* socketio reconnects by itself
SioReconnect ==
    /\ kind = "invokeai"
    /\ is_booted["be"]
    /\ ~sio_connected
    /\ sio_connected' = TRUE
    /\ UNCHANGED <<natsVars, busVars, kind, auxVars, is_booted, request_cache,
                   last_completion, session, nsess, invoked, evErr, evDone,
                   handlerPubs>>

\* sync_send_reply: callback_send_workload(request) on a fresh event loop,
\* straight to NatsManager.publish: no swap, one publish
sync_send_reply(s, e) ==
    /\ publish(e)
    /\ handlerPubs' = [handlerPubs EXCEPT ![s] = @ + 1]

\* on_invocation_complete
OnInvocationComplete(s) ==
    /\ sio_connected
    /\ s \in invoked
    /\ evDone[s] = "no"
    /\ s \notin last_completion
    /\ last_completion' = last_completion \cup {s}
    /\ UNCHANGED <<natsVars, busVars, kind, auxVars, is_booted, sio_connected,
                   request_cache, session, nsess, invoked, evErr, evDone,
                   handlerPubs>>

\* on_invocation_error
OnInvocationError(s) ==
    /\ sio_connected
    /\ s \in invoked
    /\ evDone[s] = "no"
    /\ s \notin evErr
    /\ LET e == [request_cache[s] EXCEPT
                    !.fields = (@ \ {"reply-none"}) \cup {"error"}]
       IN /\ request_cache' = [request_cache EXCEPT ![s] = e]
          /\ sync_send_reply(s, e)
    /\ evErr' = evErr \cup {s}
    /\ UNCHANGED <<natsVars, pending, acked, redelivered, nreq, kind, auxVars,
                   is_booted, sio_connected, last_completion, session, nsess,
                   invoked, evDone>>

\* on_graph_execution_state_complete, lines 157-169: up to the blocking GET
\* of the image, or the reply without any reply field when no
\* invocation_complete was recorded for the session
OnGraphComplete(s) ==
    /\ sio_connected
    /\ s \in invoked
    /\ evDone[s] = "no"
    /\ LET e == [request_cache[s] EXCEPT !.fields = @ \ {"reply-none"}]
       IN /\ request_cache' = [request_cache EXCEPT ![s] = e]
          /\ IF s \notin last_completion
             THEN /\ sync_send_reply(s, e)
                  /\ evDone' = [evDone EXCEPT ![s] = "done"]
             ELSE /\ evDone' = [evDone EXCEPT ![s] = "fetching"]
                  /\ UNCHANGED <<published, queue, handlerPubs>>
    /\ UNCHANGED <<natsVars, pending, acked, redelivered, nreq, kind, auxVars,
                   is_booted, sio_connected, last_completion, session, nsess,
                   invoked, evErr>>

\* on_graph_execution_state_complete, lines 171-189: the GET has returned
OnImageFetched(s) ==
    /\ evDone[s] = "fetching"
    /\ last_completion' = last_completion \ {s}
    /\ \E status \in {200, 500} :
        LET key == IF status = 200 THEN "reply-image" ELSE "error"
            e == [request_cache[s] EXCEPT !.fields = @ \cup {key}]
        IN /\ request_cache' = [request_cache EXCEPT ![s] = e]
           /\ sync_send_reply(s, e)
    /\ evDone' = [evDone EXCEPT ![s] = "done"]
    /\ UNCHANGED <<natsVars, pending, acked, redelivered, nreq, kind, auxVars,
                   is_booted, sio_connected, session, nsess, invoked, evErr>>

----------------------------------------------------------------------------
(* SpecBackend: the broker accepts the subscription of "be" and its acks;  *)
(* the replies addressed to the frontend stay on the stream                *)

NextBackend ==
    \/ NatsBoot
    \/ \E w \in Workers : WorkerBoot(w)
    \/ SubscribeOk("be")
    \/ Dispatch
    \/ Fetch("be")
    \/ Ack("be")
    \/ Redeliver("be")
    \/ ReceiveSync
    \/ InvReplyNow
    \/ InvPost
    \/ InvPutRejected
    \/ InvPutAccepted
    \/ InvMark
    \/ InvSwap
    \/ InvSend
    \/ SioDisconnect
    \/ SioReconnect
    \/ \E s \in Sessions : OnInvocationComplete(s)
    \/ \E s \in Sessions : OnInvocationError(s)
    \/ \E s \in Sessions : OnGraphComplete(s)
    \/ \E s \in Sessions : OnImageFetched(s)

SpecBackend == InitBackend /\ [][NextBackend]_vars

----------------------------------------------------------------------------
(* SpecAddress: the names NatsManager derives from (end, name, subname)    *)

\* Strings are sequences of characters, so that str.replace and the
\* f-strings are computed and not assumed.  "frontend" and "backend" are
\* the two values of DreambotWorkerEndType, each standing for its letters.
NameChars == {"a", ".", "_"}

Ends == {<<"frontend">>, <<"backend">>}

\* all strings over NameChars of length lo..hi
StrOver(lo, hi) == UNION {[1..n -> NameChars] : n \in lo..hi}

\* str.replace(old, new) for single characters
str_replace(s, old, new) == [i \in 1..Len(s) |-> IF s[i] = old THEN new ELSE s[i]]

\* NatsManager.get_queue_name on the fields of a worker
queue_name_of(name, subname) ==
    IF subname # <<>>
    THEN name \o <<".">> \o str_replace(subname, ".", "_")
    ELSE name

\* NatsManager.get_subject on the fields of a worker
subject_of(end, name, subname) == end \o <<".">> \o queue_name_of(name, subname)

\* NatsManager.subscribe line 104: the durable and queue-group name
durable_of(name, subname) == str_replace(queue_name_of(name, subname), ".", "_")

\* the worker objects a process may construct: name is not validated
WorkerTriples ==
    {[end |-> e, name |-> n, subname |-> sn] :
        e \in Ends, n \in StrOver(1, MaxNameLen), sn \in StrOver(0, MaxNameLen)}

InitAddress ==
    /\ Init0 /\ kind = "commands" /\ SendIdle /\ KeysIdle /\ GptKeyIdle
    /\ TrigIdle
    /\ CleanIdle
    /\ ParseIdle
    /\ RenderIdle
    /\ SplitIdle
    /\ NatsLifeIdle
    /\ IrcBootIdle
    /\ GptIdle /\ IrcIdle
    /\ wk \in {p \in [1..2 -> WorkerTriples] : p[1] # p[2]}
    /\ wk_address = [i \in 1..2 |-> <<>>]
    /\ wk_durable = [i \in 1..2 |-> <<>>]

\* NatsManager.boot line 80: worker.address = self.get_subject(worker)
AssignAddress(i) ==
    /\ wk_address[i] = <<>>
    /\ wk_address' = [wk_address EXCEPT
                         ![i] = subject_of(wk[i].end, wk[i].name, wk[i].subname)]
    /\ UNCHANGED <<notAddr, wk, wk_durable>>

\* NatsManager.subscribe lines 104-124: the task created by boot computes
\* the durable name, which is also the queue group
SubscribeNames(i) ==
    /\ wk_address[i] # <<>>
    /\ wk_durable[i] = <<>>
    /\ wk_durable' = [wk_durable EXCEPT
                         ![i] = durable_of(wk[i].name, wk[i].subname)]
    /\ UNCHANGED <<notAddr, wk, wk_address>>

NextAddress ==
    \/ \E i \in 1..2 : AssignAddress(i)
    \/ \E i \in 1..2 : SubscribeNames(i)

SpecAddress == InitAddress /\ [][NextAddress]_vars

----------------------------------------------------------------------------
(* SpecSend: DreambotWorkerBase.send_message and NatsManager.publish on    *)
(* envelopes as dicts (functions from keys to values)                      *)

SendAddrs == {"frontend.irc", "backend.gpt"}

ImagePlaceholder == "** IMAGE **"

\* the envelopes a caller hands over: to and reply-to are always there,
\* reply-image and a context key may be
SendInputs ==
    {d \in UNION {[ks -> SendAddrs \cup {"png", "alice"}] :
                     ks \in {{"to", "reply-to"} \cup x :
                                x \in SUBSET {"reply-image", "user"}}} :
        /\ d["to"] \in SendAddrs /\ d["reply-to"] \in SendAddrs
        /\ "reply-image" \in DOMAIN d => d["reply-image"] = "png"
        /\ "user" \in DOMAIN d => d["user"] = "alice"}

\* the order in which json.dumps writes the keys of these dicts
KeyOrder == <<"to", "reply-to", "user", "reply-image">>

\* json.dumps(d): the text, as the sequence of its key/value pairs
json_dumps(d) ==
    LET present == SelectSeq(KeyOrder, LAMBDA k : k \in DOMAIN d)
    IN [i \in 1..Len(present) |-> <<present[i], d[present[i]]>>]

\* json.loads(p)
json_loads(p) ==
    [k \in {p[i][1] : i \in 1..Len(p)} |->
        p[CHOOSE i \in 1..Len(p) : p[i][1] = k][2]]

\* NatsManager.publish lines 179-181: the copy that is logged
Censored(d) ==
    [k \in DOMAIN d |-> IF k = "reply-image" THEN ImagePlaceholder ELSE d[k]]

\* NatsManager.publish line 184: the payload is built from message, not
\* from the censored copy json_msg
PayloadOfMutCensored(msg, json_msg) == json_dumps(json_msg)

PayloadOf(msg, json_msg) == json_dumps(msg)

\* DreambotWorkerBase.send_message lines 62-64, on a dict
send_swap_MutAlways(addr, d) ==
    [d EXCEPT !["to"] = d["reply-to"], !["reply-to"] = addr]

send_swap(addr, d) ==
    IF d["to"] = addr
    THEN [d EXCEPT !["to"] = d["reply-to"], !["reply-to"] = addr]
    ELSE d

\* NatsManager.publish(msg): log the censored copy, then jets.publish;
\* sent is false when jets.publish raises
nats_publish(msg, sent) ==
    /\ Len(snd_log) < MaxSends
    /\ snd_log' = Append(snd_log, Censored(msg))
    /\ snd_wire' = IF sent
                   THEN Append(snd_wire,
                               [subject |-> msg["to"],
                                payload |-> PayloadOf(msg, Censored(msg))])
                   ELSE snd_wire

InitSend ==
    /\ Init0 /\ kind = "commands" /\ AddressIdle /\ KeysIdle /\ GptKeyIdle
    /\ TrigIdle
    /\ CleanIdle
    /\ ParseIdle
    /\ RenderIdle
    /\ SplitIdle
    /\ NatsLifeIdle
    /\ IrcBootIdle
    /\ GptIdle /\ IrcIdle
    /\ snd_address \in SendAddrs
    /\ snd_msg \in SendInputs
    /\ snd_calls = 0
    /\ snd_log = <<>>
    /\ snd_wire = <<>>

\* the caller builds another envelope
Compose ==
    /\ Len(snd_log) < MaxSends
    /\ \E d \in SendInputs : d # snd_msg /\ snd_msg' = d
    /\ snd_calls' = 0
    /\ UNCHANGED <<notSend, snd_address, snd_log, snd_wire>>

\* worker.send_message(snd_msg): the swap is made in the caller's dict,
\* then callback_send_workload; an exception of the publish is logged
SendMessage ==
    /\ snd_calls < MaxSends
    /\ LET m == send_swap(snd_address, snd_msg) IN
        /\ snd_msg' = m
        /\ \E sent \in BOOLEAN : nats_publish(m, sent)
    /\ snd_calls' = snd_calls + 1
    /\ UNCHANGED <<notSend, snd_address>>

\* callback_send_workload(snd_msg) called directly, as the frontends and
\* InvokeAI's sync_send_reply do: DreambotCLI.callback_send_workload hands
\* the dict to NatsManager.publish
DirectPublish ==
    /\ \E sent \in BOOLEAN : nats_publish(snd_msg, sent)
    /\ UNCHANGED <<notSend, snd_address, snd_msg, snd_calls>>

NextSend ==
    \/ Compose
    \/ SendMessage
    \/ DirectPublish

SpecSend == InitSend /\ [][NextSend]_vars

----------------------------------------------------------------------------
(* SpecKeys: what the backends write into the request dict, key by key     *)

\* the keys every frontend puts into a request, and those it may add
RequestKeys == {"to", "reply-to", "frontend", "channel", "user", "trigger",
                "prompt"}

OptionalKeys == {"server", "origin_message", "image_url", "x-unknown"}

KeysAddress == "backend.worker"

\* a request as the pump hands it to receive: every key holds a value that
\* names the key, so that a key taking another key's value is seen
RequestDicts ==
    {[k \in RequestKeys \cup opt |->
         CASE k = "to" -> KeysAddress
           [] k = "reply-to" -> "frontend.irc"
           [] OTHER -> "v:" \o k] : opt \in SUBSET OptionalKeys}

\* message[k] = v
DictSet(d, k, v) == [x \in DOMAIN d \cup {k} |-> IF x = k THEN v ELSE d[x]]

\* request.pop(k, None)
DictPop(d, k) == [x \in DOMAIN d \ {k} |-> d[x]]

\* invokeai.py lines 164 and 214: the handlers remove reply-none
HandlerCleanMutPrompt(d) == DictPop(DictPop(d, "reply-none"), "prompt")

HandlerClean(d) == DictPop(d, "reply-none")

\* the reply keys receive may set, by backend: gpt 75/85/91 and 93-101,
\* commands 59/62 and 64-66, a1111 69/108/111 and 100/113-117,
\* invokeai 92/103/117/121/124 and 126-130
ReceiveKeys(k) ==
    CASE k = "gpt" -> {"reply-text", "error"}
      [] k = "commands" -> {"reply-text", "error"}
      [] k = "a1111" -> {"reply-text", "reply-image", "error"}
      [] OTHER -> {"reply-text", "reply-none", "error"}

InitKeys ==
    /\ Init0 /\ kind = "commands" /\ AddressIdle /\ SendIdle /\ GptKeyIdle
    /\ TrigIdle
    /\ CleanIdle
    /\ ParseIdle
    /\ RenderIdle
    /\ SplitIdle
    /\ NatsLifeIdle
    /\ IrcBootIdle
    /\ GptIdle /\ IrcIdle
    /\ kx_kind \in BackendKinds
    /\ kx_req \in RequestDicts
    /\ kx_msg = kx_req
    /\ kx_pc = "received"
    /\ kx_out = <<>>

\* callback_receive_workload of backend kx_kind: one reply key is set,
\* send_message swaps to and reply-to in the dict and publishes it
KeysReceive ==
    /\ kx_pc = "received"
    /\ \E key \in ReceiveKeys(kx_kind) :
        LET m == send_swap(KeysAddress, DictSet(kx_msg, key, "v:" \o key))
        IN /\ kx_msg' = m
           /\ kx_out' = Append(kx_out, m)
           /\ kx_pc' = IF key = "reply-none" THEN "waiting" ELSE "done"
    /\ UNCHANGED <<notKeys, kx_kind, kx_req>>

\* on_invocation_error: reply-none removed, error set, the dict published
KeysInvocationError ==
    /\ kx_pc = "waiting"
    /\ Len(kx_out) < MaxReplies
    /\ LET m == DictSet(HandlerClean(kx_msg), "error", "v:error")
       IN /\ kx_msg' = m
          /\ kx_out' = Append(kx_out, m)
    /\ UNCHANGED <<notKeys, kx_kind, kx_req, kx_pc>>

\* on_graph_execution_state_complete: reply-none removed; then the dict is
\* published as it is (no last_completion), with error (image GET failed)
\* or with reply-image
KeysGraphComplete ==
    /\ kx_pc = "waiting"
    /\ Len(kx_out) < MaxReplies
    /\ \E branch \in {"none", "error", "reply-image"} :
        LET c == HandlerClean(kx_msg)
            m == IF branch = "none" THEN c
                 ELSE DictSet(c, branch, "v:" \o branch)
        IN /\ kx_msg' = m
           /\ kx_out' = Append(kx_out, m)
    /\ UNCHANGED <<notKeys, kx_kind, kx_req, kx_pc>>

NextKeys ==
    \/ KeysReceive
    \/ KeysInvocationError
    \/ KeysGraphComplete

SpecKeys == InitKeys /\ [][NextKeys]_vars

----------------------------------------------------------------------------
(* SpecGptKey: DreambotBackendGPT.cache_name_for_prompt                    *)

\* the characters that matter to the key: a letter and the separator
KeyChars == {"a", "_"}

\* the values reply-to, channel and user may take
KeyFields == UNION {[1..n -> KeyChars] : n \in 1..MaxFieldLen}

KeyTuples ==
    {[replyTo |-> r, channel |-> c, user |-> u] :
        r \in KeyFields, c \in KeyFields, u \in KeyFields}

\* f"{data['reply-to']}_{data['channel']}_{data['user']}"
cache_name_for_prompt(data) ==
    data.replyTo \o <<"_">> \o data.channel \o <<"_">> \o data.user

InitGptKey ==
    /\ Init0 /\ kind = "gpt" /\ AddressIdle /\ SendIdle /\ KeysIdle
    /\ TrigIdle
    /\ CleanIdle
    /\ ParseIdle
    /\ RenderIdle
    /\ SplitIdle
    /\ NatsLifeIdle
    /\ IrcBootIdle
    /\ GptIdle /\ IrcIdle
    /\ gk_req \in {p \in [1..2 -> KeyTuples] : p[1] # p[2]}
    /\ gk_key = [i \in 1..2 |-> <<>>]

\* ensure_cache_for_user(message) for request i: the key under which its
\* conversation is read and written
EnsureCache(i) ==
    /\ gk_key[i] = <<>>
    /\ gk_key' = [gk_key EXCEPT ![i] = cache_name_for_prompt(gk_req[i])]
    /\ UNCHANGED <<notGptKey, gk_req>>

NextGptKey == \E i \in 1..2 : EnsureCache(i)

SpecGptKey == InitGptKey /\ [][NextGptKey]_vars

----------------------------------------------------------------------------
(* SpecGpt: DreambotBackendGPT.callback_receive_workload and its cache     *)

\* the requesters: (reply-to, channel, user); the last two differ and have
\* the same cache key
GptUsers ==
    { [replyTo |-> <<"a">>, channel |-> <<"a">>, user |-> <<"a">>],
      [replyTo |-> <<"a">>, channel |-> <<"a">>, user |-> <<"_", "a">>],
      [replyTo |-> <<"a">>, channel |-> <<"a", "_">>, user |-> <<"a">>] }

\* args.prompt after the flags
GptPrompts == {"hello", "more"}

\* what the parsed prompt asks for: a completion, --list-models, --help,
\* or arguments the parser rejects
GptModes == {"chat", "list", "help", "bad"}

\* openai.ChatCompletion.create returns, or raises one of the API errors
ApiOutcomes == {"ok", "fail"}

GptRequests ==
    {[user |-> u, followup |-> f, mode |-> m, api |-> a, prompt |-> p] :
        u \in GptUsers, f \in BOOLEAN, m \in GptModes, a \in ApiOutcomes,
        p \in GptPrompts}

SystemTurn ==
    [role |-> "system",
     content |-> "You are a helpful assistant. Make your answers as brief as possible."]

UserTurn(req) == [role |-> "user", content |-> req.prompt]

\* response.choices[0].message.content
Completion(req) == "answer to " \o req.prompt

ModelList == "gpt-4, gpt-3.5-turbo, gpt-3.5-turbo-0301"

AssistantTurn(text) == [role |-> "assistant", content |-> text]

\* self.conversation_cache[key] = [system turn]
reset_cache(cache, key) == DictSet(cache, key, <<SystemTurn>>)

\* the cache after ensure_cache_for_user(message)
ensure_cache_for_user(cache, data) ==
    IF cache_name_for_prompt(data) \in DOMAIN cache
    THEN cache
    ELSE reset_cache(cache, cache_name_for_prompt(data))

\* if not args.followup: self.reset_cache(cache_key)
KeepsTurnsMutNever(req) == FALSE
KeepsTurns(req) == req.followup

\* the cache once the entry is in the right state for this request
Prepared(cache, req) ==
    IF KeepsTurns(req)
    THEN ensure_cache_for_user(cache, req.user)
    ELSE reset_cache(ensure_cache_for_user(cache, req.user),
                     cache_name_for_prompt(req.user))

CacheAppend(cache, key, turn) == DictSet(cache, key, Append(cache[key], turn))

\* the cache after openai.ChatCompletion.create raised: the handlers of
\* lines 92-97 set message["error"] and leave the cache as line 78 left it
AfterFailureMutRollback(asked, prepared) == prepared

AfterFailure(asked, prepared) == asked

InitGpt ==
    /\ Init0 /\ kind = "gpt" /\ AddressIdle /\ SendIdle /\ KeysIdle
    /\ TrigIdle
    /\ CleanIdle
    /\ ParseIdle
    /\ RenderIdle
    /\ SplitIdle
    /\ NatsLifeIdle
    /\ IrcBootIdle
    /\ GptKeyIdle /\ IrcIdle
    /\ conversation_cache = <<>>
    /\ gp_last = <<>>
    /\ gp_context = <<>>
    /\ gp_reply = <<>>
    /\ gp_n = 0

\* callback_receive_workload for one request, up to the reply it sends
GptReceive(req) ==
    LET key == cache_name_for_prompt(req.user)
        asked == CacheAppend(Prepared(conversation_cache, req), key,
                             UserTurn(req))
    IN  /\ gp_n < MaxGptRequests
        /\ gp_n' = gp_n + 1
        /\ gp_last' = req
        /\ CASE req.mode = "help" ->
                  /\ gp_reply' = [field |-> "reply-text", value |-> "usage"]
                  /\ UNCHANGED <<conversation_cache, gp_context>>
             [] req.mode = "bad" ->
                  /\ gp_reply' = [field |-> "error", value |-> "arguments"]
                  /\ UNCHANGED <<conversation_cache, gp_context>>
             [] req.mode = "list" ->
                  /\ conversation_cache' =
                        CacheAppend(Prepared(conversation_cache, req), key,
                                    AssistantTurn(ModelList))
                  /\ gp_reply' = [field |-> "reply-text", value |-> ModelList]
                  /\ UNCHANGED gp_context
             [] req.mode = "chat" /\ req.api = "fail" ->
                  /\ conversation_cache' =
                        AfterFailure(asked, Prepared(conversation_cache, req))
                  /\ gp_context' = asked[key]
                  /\ gp_reply' = [field |-> "error", value |-> "service"]
             [] req.mode = "chat" /\ req.api = "ok" ->
                  /\ conversation_cache' =
                        CacheAppend(asked, key, AssistantTurn(Completion(req)))
                  /\ gp_context' = asked[key]
                  /\ gp_reply' = [field |-> "reply-text",
                                  value |-> Completion(req)]
        /\ UNCHANGED notGpt

NextGpt == \E req \in GptRequests : GptReceive(req)

SpecGpt == InitGpt /\ [][NextGpt]_vars

----------------------------------------------------------------------------
(* SpecIrc: FrontendIRC.irc_received_privmsg                               *)

IrcChars == {"!", "d", " ", "x"}

\* params[1] of a PRIVMSG; handle_line strips the line, so it does not end
\* with a space
IrcTexts ==
    {x \in UNION {[1..n -> IrcChars] : n \in 1..MaxTextLen} : x[Len(x)] # " "}

\* options["triggers"], a list of trigger words
IrcTriggers == << <<"!", "d">>, <<"!", "x">> >>

\* the nick of the prefix, or <<>> for a line without a prefix
IrcNicks == {<<"a", "l">>, <<>>}

\* params[0]: a channel or the bot's own nick
IrcTargets == {<<"#", "r">>, <<"b", "o", "t">>}

IrcMessages ==
    {[nick |-> n, to |-> t, text |-> x] :
        n \in IrcNicks, t \in IrcTargets, x \in IrcTexts}

\* s.startswith(p)
StartsWith(s, p) == Len(s) >= Len(p) /\ SubSeq(s, 1, Len(p)) = p

\* s.lstrip()
RECURSIVE lstrip(_)
lstrip(s) == IF s # <<>> /\ Head(s) = " " THEN lstrip(Tail(s)) ELSE s

\* Message.source()
source(m) == IF m.nick # <<>> THEN m.nick ELSE <<"?", "?", "?">>

\* Message.target()
target(m) == IF StartsWith(m.to, <<"#">>) THEN m.to ELSE source(m)

\* the attributes DreambotWorkerBase.__init__ and FrontendIRC.__init__ set on
\* the instance, and the address NatsManager assigns; the queue_name keyword
\* of the super().__init__ call is not a parameter of the base class
irc_self ==
    [name |-> "IRC", subname |-> "", end |-> "frontend",
     options |-> [triggers |-> IrcTriggers],
     should_reconnect |-> TRUE,
     address |-> <<"f", "r", "o", "n", "t", "e", "n", "d", ".", "I", "R", "C">>,
     server |-> [host |-> "irc.example.net"]]

\* the dict literal of irc_received_privmsg for one matched trigger
IrcEnvelope(m, trigger) ==
    [to |-> trigger,
     replyTo |-> irc_self["queue_name"],
     frontend |-> "irc",
     server |-> irc_self.server.host,
     channel |-> target(m),
     user |-> source(m),
     trigger |-> trigger,
     prompt |-> SubSeq(lstrip(m.text), Len(trigger) + 2, Len(lstrip(m.text)))]

\* text.startswith(f"{trigger} ")
Triggered(m, trigger) == StartsWith(lstrip(m.text), trigger \o <<" ">>)

\* the positions of options["triggers"] that the text matches
MatchedTriggers(m) ==
    {i \in DOMAIN IrcTriggers : Triggered(m, IrcTriggers[i])}

\* the envelopes of the loop over the triggers, in the order of the list
RECURSIVE IrcEnvelopes(_, _)
IrcEnvelopes(m, i) ==
    IF i > Len(IrcTriggers) THEN <<>>
    ELSE (IF Triggered(m, IrcTriggers[i])
          THEN <<IrcEnvelope(m, IrcTriggers[i])>> ELSE <<>>)
         \o IrcEnvelopes(m, i + 1)

InitIrc ==
    /\ Init0 /\ kind = "commands" /\ AddressIdle /\ SendIdle /\ KeysIdle
    /\ TrigIdle
    /\ CleanIdle
    /\ ParseIdle
    /\ RenderIdle
    /\ SplitIdle
    /\ NatsLifeIdle
    /\ IrcBootIdle
    /\ GptKeyIdle /\ GptIdle
    /\ irc_msg = <<>>
    /\ irc_dispatched = <<>>
    /\ irc_raised = ""
    /\ irc_out = <<>>
    /\ irc_n = 0

\* irc_received_privmsg(message); the bus either takes an envelope or
\* callback_send_workload raises and the sender is told so
IrcReceivedPrivmsg(m, publish_raises) ==
    /\ irc_n < MaxIrcLines
    /\ irc_n' = irc_n + 1
    /\ irc_msg' = m
    /\ IF MatchedTriggers(m) = {}
       THEN /\ irc_raised' = ""
            /\ irc_dispatched' = <<>>
            /\ irc_out' = <<>>
       ELSE IF "queue_name" \notin DOMAIN irc_self
       THEN /\ irc_raised' = "AttributeError"
            /\ irc_dispatched' = <<>>
            /\ irc_out' = <<>>
       ELSE /\ irc_raised' = ""
            /\ irc_dispatched' = IrcEnvelopes(m, 1)
            /\ irc_out' =
                  IF publish_raises
                  THEN [i \in 1..Len(IrcEnvelopes(m, 1)) |->
                           [to |-> target(m), user |-> source(m),
                            text |-> "Dream sequence failed."]]
                  ELSE <<>>
    /\ UNCHANGED notIrc

NextIrc ==
    \E m \in IrcMessages, publish_raises \in BOOLEAN :
        IrcReceivedPrivmsg(m, publish_raises)

SpecIrc == InitIrc /\ [][NextIrc]_vars

----------------------------------------------------------------------------
(* SpecIrcBoot: FrontendIRC.boot, its read loop, irc_renick and shutdown.  *)
(* ib_pc is the await the boot coroutine is suspended in: "connecting"     *)
(* (open_connection), "reading" (readline), "closing" (wait_closed in the  *)
(* finally block), "sleeping" (the backoff sleep); or how it ended:        *)
(* "returned", "raised", "cancelled".                                      *)

\* server["nickname"] as configured
ConfiguredNick == <<"d", "b">>

\* the ways the read loop loses the connection: wait_for times out, the
\* peer resets the connection, at_eof
LossCauses == {"timeout", "reset", "eof"}

\* lines the server sends whose handling does not end the read loop; a
\* NOTICE has no handler in handle_line
QuietLines == {"001", "443", "PING", "NOTICE"}

BootEnded == {"returned", "raised", "cancelled"}
BootAwaits == {"connecting", "reading", "closing", "sleeping"}

\* irc_renick: self.server["nickname"] + "_"
RenickedMutSame(nick) == nick
Renicked(nick) == Append(nick, "_")

\* f"NICK {self.server['nickname']}"
NickLine(nick) == <<"NICK", nick>>

UserLine == <<"USER">>

\* boot, lines 129-130: the two lines sent on a new connection
HandshakeMutUserFirst(nick) == <<UserLine, NickLine(nick)>>

Handshake(nick) == <<NickLine(nick), UserLine>>

\* server["channels"]
Channels == << <<"#", "a">>, <<"#", "b">> >>

\* send_cmd("JOIN", channel)
JoinLine(channel) == <<"JOIN", channel>>

\* irc_join: one JOIN for every entry of the list, in the order of the list
JoinLinesMutReversed ==
    [k \in 1..Len(Channels) |-> JoinLine(Channels[Len(Channels) + 1 - k])]

JoinLines == [k \in 1..Len(Channels) |-> JoinLine(Channels[k])]

\* the PRIVMSG of a reply envelope
ReplyLine == <<"PRIVMSG">>

\* send_line raises: ValueError without a writer, and drain raises
\* ConnectionResetError on a connection that is lost
SendLineRaises(writer) == writer # "open"

\* is_booted after the finally block of boot: no statement clears it
AfterCloseMutCleared(booted) == FALSE

AfterClose(booted) == booted

\* the PONG that answers a PING
PongLine == <<"PONG">>

\* after the finally block: if not self.should_reconnect: break, else sleep
AfterCleanup(flag) == IF flag THEN "sleeping" ELSE "returned"

\* after asyncio.sleep(5) the outer while True starts over: the flag is not
\* read again before open_connection
AfterSleep(flag) == "connecting"

InitIrcBoot ==
    /\ Init0 /\ kind = "commands"
    /\ TrigIdle
    /\ CleanIdle
    /\ ParseIdle
    /\ RenderIdle
    /\ SplitIdle
    /\ NatsLifeIdle
    /\ AddressIdle /\ SendIdle /\ KeysIdle /\ GptKeyIdle /\ GptIdle
    /\ IrcIdle
    /\ ib_pc = "idle"
    /\ should_reconnect = TRUE
    /\ ib_writer = "none"
    /\ ib_reader_eof = FALSE
    /\ nickname = ConfiguredNick
    /\ ib_line = ""
    /\ ib_wrote = <<>>
    /\ ib_loss = "none"
    /\ ib_shutdowns = 0
    /\ ib_cli = "none"
    /\ ib_booted = FALSE
    /\ ib_pump = "none"
    /\ ib_delivered = 0
    /\ ib_acks = 0

\* the boot task starts: first pass of the outer loop, open_connection.
\* DreambotCLI.run creates the boot tasks before the loop runs a signal
\* handler, so boot starts before any shutdown.
IrcBoot ==
    /\ ib_pc = "idle"
    /\ ib_shutdowns = 0
    /\ ib_pc' = "connecting"
    /\ ib_line' = "" /\ ib_wrote' = <<>>
    /\ UNCHANGED <<notIrcBoot, ib_booted, ib_pump, ib_delivered, ib_acks,
                   should_reconnect, ib_writer, ib_reader_eof,
                   nickname, ib_loss, ib_shutdowns, ib_cli>>

\* open_connection returned: a new reader and writer, NICK and USER are
\* sent, the read loop starts
ConnectOk ==
    /\ ib_pc = "connecting"
    /\ ib_pc' = "reading"
    /\ ib_writer' = "open"
    /\ ib_reader_eof' = FALSE
    /\ ib_wrote' = Handshake(nickname)
    /\ ib_booted' = TRUE
    /\ ib_line' = ""
    /\ ib_loss' = "none"
    /\ UNCHANGED <<notIrcBoot, ib_pump, ib_delivered, ib_acks,
                   should_reconnect, nickname, ib_shutdowns,
                   ib_cli>>

\* open_connection raised ConnectionRefusedError: the finally block closes
\* the writer of the previous connection if there is one, and awaits
\* wait_closed; without a writer the flag is tested at once
ConnectRefused ==
    /\ ib_pc = "connecting"
    /\ ib_loss' = "refused"
    /\ ib_pc' = IF ib_writer = "none" THEN AfterCleanup(should_reconnect)
                ELSE "closing"
    /\ ib_line' = "" /\ ib_wrote' = <<>>
    /\ UNCHANGED <<notIrcBoot, ib_booted, ib_pump, ib_delivered, ib_acks,
                   should_reconnect, ib_writer, ib_reader_eof,
                   nickname, ib_shutdowns, ib_cli>>

\* readline returned a line and handle_line handled it. 001 calls irc_join,
\* 443 calls irc_renick, PING is answered with PONG, a NOTICE writes
\* nothing. On a
\* writer that is closed, send_line's drain raises ConnectionResetError
\* after the write, which ends the read loop.
ReadLine(l) ==
    /\ ib_pc = "reading"
    /\ l = "443" => Len(nickname) < Len(ConfiguredNick) + MaxRenicks
    /\ ib_line' = l
    /\ nickname' = IF l = "443" THEN Renicked(nickname) ELSE nickname
    /\ ib_wrote' = IF l = "443" THEN <<NickLine(nickname')>>
                   ELSE IF l = "PING" THEN <<PongLine>>
                   ELSE IF l = "001"
                   THEN (IF SendLineRaises(ib_writer)
                         THEN SubSeq(JoinLines, 1, 1) ELSE JoinLines)
                   ELSE <<>>
    /\ IF ib_writer = "open" \/ l = "NOTICE"
       THEN UNCHANGED <<ib_pc, ib_loss>>
       ELSE ib_pc' = "closing" /\ ib_loss' = "error"
    /\ UNCHANGED <<notIrcBoot, ib_booted, ib_pump, ib_delivered, ib_acks,
                   should_reconnect, ib_writer, ib_reader_eof,
                   ib_shutdowns, ib_cli>>

\* handle_line raised (parse_line on a malformed line, a handler): caught
\* by except Exception, the finally block closes the writer
HandlerRaises ==
    /\ ib_pc = "reading"
    /\ ib_pc' = "closing"
    /\ ib_loss' = "error"
    /\ ib_writer' = IF ib_writer = "open" THEN "closed" ELSE ib_writer
    /\ ib_line' = "raises" /\ ib_wrote' = <<>>
    /\ UNCHANGED <<notIrcBoot, ib_booted, ib_pump, ib_delivered, ib_acks,
                   should_reconnect, ib_reader_eof, nickname,
                   ib_shutdowns, ib_cli>>

\* the connection is lost while boot waits in readline; a reset leaves the
\* exception in the writer's close waiter
Lose(cause) ==
    /\ ib_pc = "reading"
    /\ ib_pc' = "closing"
    /\ ib_loss' = cause
    /\ ib_writer' = IF cause = "reset" THEN "reset"
                    ELSE IF ib_writer = "open" THEN "closed" ELSE ib_writer
    /\ ib_line' = "" /\ ib_wrote' = <<>>
    /\ UNCHANGED <<notIrcBoot, ib_booted, ib_pump, ib_delivered, ib_acks,
                   should_reconnect, ib_reader_eof, nickname,
                   ib_shutdowns, ib_cli>>

\* shutdown fed EOF to the reader boot is reading from: readline returns
\* b"", at_eof breaks the read loop
ReadEof ==
    /\ ib_pc = "reading"
    /\ ib_reader_eof
    /\ ib_pc' = "closing"
    /\ ib_loss' = "eof"
    /\ ib_line' = "" /\ ib_wrote' = <<>>
    /\ UNCHANGED <<notIrcBoot, ib_booted, ib_pump, ib_delivered, ib_acks,
                   should_reconnect, ib_writer, ib_reader_eof,
                   nickname, ib_shutdowns, ib_cli>>

\* wait_closed in the finally block is over: it raises the exception the
\* connection was lost with, which leaves boot; otherwise feed_eof, and the
\* test of should_reconnect
CloseDone ==
    /\ ib_pc = "closing"
    /\ ib_pc' = IF ib_writer = "reset" THEN "raised"
                ELSE AfterCleanup(should_reconnect)
    /\ ib_reader_eof' = IF ib_writer = "reset" THEN ib_reader_eof ELSE TRUE
    /\ ib_booted' = AfterClose(ib_booted)
    /\ ib_line' = "" /\ ib_wrote' = <<>>
    /\ UNCHANGED <<notIrcBoot, ib_pump, ib_delivered, ib_acks,
                   should_reconnect, ib_writer, nickname,
                   ib_loss, ib_shutdowns, ib_cli>>

\* the backoff sleep is over
SleepDone ==
    /\ ib_pc = "sleeping"
    /\ ib_pc' = AfterSleep(should_reconnect)
    /\ ib_line' = "" /\ ib_wrote' = <<>>
    /\ UNCHANGED <<notIrcBoot, ib_booted, ib_pump, ib_delivered, ib_acks,
                   should_reconnect, ib_writer, ib_reader_eof,
                   nickname, ib_loss, ib_shutdowns, ib_cli>>

\* FrontendIRC.shutdown: the flag, the writer, the reader
ShutdownEffect ==
    /\ ib_shutdowns < MaxShutdowns
    /\ ib_shutdowns' = ib_shutdowns + 1
    /\ should_reconnect' = FALSE
    /\ ib_writer' = IF ib_writer = "open" THEN "closed" ELSE ib_writer
    /\ ib_reader_eof' = IF ib_writer \in {"open", "closed"} THEN TRUE
                        ELSE ib_reader_eof

\* shutdown called on the worker
IrcShutdown ==
    /\ ShutdownEffect
    /\ UNCHANGED <<notIrcBoot, ib_booted, ib_pump, ib_delivered, ib_acks,
                   ib_pc, nickname, ib_line, ib_wrote, ib_loss,
                   ib_cli>>

\* DreambotCLI.shutdown on a signal, up to the end of the workers' shutdown
CliShutdown ==
    /\ ib_cli = "none"
    /\ ShutdownEffect
    /\ ib_cli' = "cancelling"
    /\ UNCHANGED <<notIrcBoot, ib_booted, ib_pump, ib_delivered, ib_acks,
                   ib_pc, nickname, ib_line, ib_wrote, ib_loss>>

\* DreambotCLI.shutdown cancels every other task: boot gets CancelledError
\* at the await it is suspended in
CliCancel ==
    /\ ib_cli = "cancelling"
    /\ ib_cli' = "done"
    /\ ib_pc' = IF ib_pc \in BootAwaits \cup {"idle"} THEN "cancelled"
                ELSE ib_pc
    /\ UNCHANGED <<notIrcBoot, ib_booted, ib_pump, ib_delivered, ib_acks,
                   should_reconnect, ib_writer, ib_reader_eof,
                   nickname, ib_line, ib_wrote, ib_loss, ib_shutdowns>>

\* the NATS pump, a task of the same event loop, fetches a reply envelope
\* for the frontend (nats.py 138-152): skipped while is_booted is false;
\* otherwise callback_receive_workload sends its PRIVMSG, which raises
\* without a usable connection, and the pump calls msg.ack() either way
PumpReply ==
    /\ ib_delivered < MaxAcks
    /\ IF ~ib_booted
       THEN /\ ib_pump' = "skipped"
            /\ ib_wrote' = <<>>
            /\ UNCHANGED <<ib_delivered, ib_acks>>
       ELSE /\ ib_pump' = IF SendLineRaises(ib_writer) THEN "raised" ELSE "sent"
            /\ ib_wrote' = IF ib_writer = "none" THEN <<>> ELSE <<ReplyLine>>
            /\ ib_delivered' = ib_delivered + 1
            /\ ib_acks' = ib_acks + 1
    /\ ib_line' = ""
    /\ UNCHANGED <<notIrcBoot, ib_pc, should_reconnect, ib_writer,
                   ib_reader_eof, nickname, ib_loss, ib_shutdowns, ib_cli,
                   ib_booted>>

NextIrcBoot ==
    \/ IrcBoot
    \/ ConnectOk
    \/ ConnectRefused
    \/ \E l \in QuietLines : ReadLine(l)
    \/ HandlerRaises
    \/ \E cause \in LossCauses : Lose(cause)
    \/ ReadEof
    \/ CloseDone
    \/ SleepDone
    \/ IrcShutdown
    \/ CliShutdown
    \/ CliCancel
    \/ PumpReply

SpecIrcBoot == InitIrcBoot /\ [][NextIrcBoot]_vars

\* the event loop runs every task that can run: a pending open_connection
\* ends one way or the other, wait_closed and the sleep end, an EOF fed to
\* the reader is read, and DreambotCLI.shutdown goes on to its cancel. A
\* readline under wait_for ends: with a line, with the timeout or with the
\* loss of the connection; which of them, is not the program's to decide.
FairIrcBoot ==
    /\ WF_vars(IrcBoot)
    /\ WF_vars(\/ \E l \in QuietLines : ReadLine(l)
               \/ \E cause \in LossCauses : Lose(cause)
               \/ HandlerRaises)
    /\ WF_vars(ConnectOk \/ ConnectRefused)
    /\ WF_vars(ReadEof)
    /\ WF_vars(CloseDone)
    /\ WF_vars(SleepDone)
    /\ WF_vars(CliCancel)

FairSpecIrcBoot == SpecIrcBoot /\ FairIrcBoot

----------------------------------------------------------------------------
(* SpecNatsLife: NatsManager.boot and NatsManager.shutdown as coroutines   *)
(* of one event loop, with the subscribe tasks boot gathers. A task is     *)
(* "waiting" in next_msg, "handling" a message up to its ack, "cancelling" *)
(* once cancel() was called on it and "cancelled" when CancelledError has  *)
(* ended it.                                                               *)

InitNatsLife ==
    /\ Init0 /\ kind = "commands"
    /\ TrigIdle
    /\ CleanIdle
    /\ ParseIdle
    /\ RenderIdle
    /\ SplitIdle
    /\ AddressIdle /\ SendIdle /\ KeysIdle /\ GptKeyIdle /\ GptIdle
    /\ IrcIdle /\ IrcBootIdle
    /\ ns_boot = "init"
    /\ ns_conn = "none"
    /\ ns_task = [w \in Workers |-> "none"]
    /\ ns_shutdown = "idle"
    /\ ns_closed_by = ""
    /\ ns_unacked = {}
    /\ ns_acks = [w \in Workers |-> 0]

\* boot: nats.connect returned, one subscribe task per worker, gather
NsConnectOk ==
    /\ ns_boot = "init"
    /\ ns_shutdown = "idle"
    /\ ns_boot' = "gathering"
    /\ ns_conn' = "open"
    /\ ns_task' = [w \in Workers |-> "waiting"]
    /\ UNCHANGED <<notNatsLife, ns_shutdown, ns_closed_by, ns_unacked,
                   ns_acks>>

\* boot: nats.connect raised NoServersError; the finally block finds no
\* task and no connection
NsNoServers ==
    /\ ns_boot = "init"
    /\ ns_boot' = "failed"
    /\ UNCHANGED <<notNatsLife, ns_conn, ns_task, ns_shutdown, ns_closed_by,
                   ns_unacked, ns_acks>>

\* subscribe: next_msg returned a message, the worker's callback runs
NsDeliver(w) ==
    /\ ns_task[w] = "waiting"
    /\ ns_conn = "open"
    /\ ns_acks[w] < MaxAcks
    /\ ns_task' = [ns_task EXCEPT ![w] = "handling"]
    /\ UNCHANGED <<notNatsLife, ns_boot, ns_conn, ns_shutdown, ns_closed_by,
                   ns_unacked, ns_acks>>

\* subscribe: the callback returned and msg.ack() went out
NsAck(w) ==
    /\ ns_task[w] = "handling"
    /\ ns_conn = "open"
    /\ ns_task' = [ns_task EXCEPT ![w] = "waiting"]
    /\ ns_acks' = [ns_acks EXCEPT ![w] = @ + 1]
    /\ UNCHANGED <<notNatsLife, ns_boot, ns_conn, ns_shutdown, ns_closed_by,
                   ns_unacked>>

\* shutdown up to its sleep: the flag, cancel() on every task of
\* nats_tasks, nats_tasks = []
NsShutdown ==
    /\ ns_shutdown = "idle"
    /\ ns_shutdown' = "sleeping"
    /\ ns_task' = [w \in Workers |->
                      IF ns_task[w] \in {"waiting", "handling"}
                      THEN "cancelling" ELSE ns_task[w]]
    /\ ns_unacked' = ns_unacked \cup {w \in Workers : ns_task[w] = "handling"}
    /\ UNCHANGED <<notNatsLife, ns_boot, ns_conn, ns_closed_by, ns_acks>>

\* the event loop throws CancelledError into the task at its await; no
\* handler of subscribe catches it
NsTaskCancelled(w) ==
    /\ ns_task[w] = "cancelling"
    /\ ns_task' = [ns_task EXCEPT ![w] = "cancelled"]
    /\ UNCHANGED <<notNatsLife, ns_boot, ns_conn, ns_shutdown, ns_closed_by,
                   ns_unacked, ns_acks>>

\* who closes the connection when boot's gather has raised
BootFinallyCloses(conn) == IF conn = "open" THEN "closed" ELSE conn

\* boot: gather raises CancelledError as soon as one of its tasks is
\* cancelled; the finally block cancels what is left in nats_tasks
\* (nothing, shutdown emptied it) and awaits self.nats.close()
NsGatherRaises ==
    /\ ns_boot = "gathering"
    /\ \E w \in Workers : ns_task[w] = "cancelled"
    /\ ns_boot' = "ended"
    /\ ns_conn' = BootFinallyCloses(ns_conn)
    /\ ns_closed_by' = IF ns_conn = "open" /\ ns_conn' = "closed"
                       THEN "boot" ELSE ns_closed_by
    /\ UNCHANGED <<notNatsLife, ns_task, ns_shutdown, ns_unacked, ns_acks>>

\* shutdown after asyncio.sleep(5): if self.nats: await self.nats.close().
\* The cancellations were scheduled before the sleep began and take a few
\* passes of the event loop, so the tasks and boot's gather have seen them
\* when the five seconds are over.
NsSleepDone ==
    /\ ns_shutdown = "sleeping"
    /\ \A w \in Workers : ns_task[w] # "cancelling"
    /\ ns_boot # "gathering"
    /\ ns_shutdown' = "done"
    /\ ns_conn' = IF ns_conn = "open" THEN "closed" ELSE ns_conn
    /\ ns_closed_by' = IF ns_conn = "open" THEN "shutdown" ELSE ns_closed_by
    /\ UNCHANGED <<notNatsLife, ns_boot, ns_task, ns_unacked, ns_acks>>

NextNatsLife ==
    \/ NsConnectOk
    \/ NsNoServers
    \/ \E w \in Workers : NsDeliver(w)
    \/ \E w \in Workers : NsAck(w)
    \/ NsShutdown
    \/ \E w \in Workers : NsTaskCancelled(w)
    \/ NsGatherRaises
    \/ NsSleepDone

SpecNatsLife == InitNatsLife /\ [][NextNatsLife]_vars

----------------------------------------------------------------------------
(* SpecSplit: FrontendIRC.split_lines and irc_received_join. split_lines   *)
(* only takes lengths and slices, so a reply is a sequence of runs of      *)
(* characters, each given by its length, and line breaks; all characters   *)
(* of one reply have the same size in UTF-8.                               *)

\* max_chunk_size = 510
RfcLimit == 510

\* who a JOIN is about, and len("nick!ident@host") of each
Joiners == {"bot", "other"}
IdentLen == [bot |-> 33, other |-> 6]

\* len(message["channel"])
ChannelLens == {5, 9}

\* lengths of the runs of characters of a reply
RunLens == {1, 459, 460, 1000}

CharWidths == {1, 2}

\* a line break among the runs: the token 0
NL == 0

ReplyTexts == UNION {[1..n -> RunLens \cup {NL}] : n \in 0..MaxTokens}

\* str.splitlines() on a reply: the lengths of its lines. Every line break
\* ends a line; what follows the last break is a line if it is not empty.
RECURSIVE splitlines(_, _, _)
splitlines(text, len, started) ==
    IF text = <<>> THEN (IF started THEN <<len>> ELSE <<>>)
    ELSE IF Head(text) = NL
         THEN <<len>> \o splitlines(Tail(text), 0, FALSE)
         ELSE splitlines(Tail(text), len + Head(text), TRUE)

\* len(f"{self.full_ident} PRIVMSG {message['channel']} :")
OverheadLen(full_ident, channel) == full_ident + 9 + channel + 2

\* max_chunk_size of split_lines
max_chunk_size(full_ident, channel) ==
    RfcLimit - OverheadLen(full_ident, channel)

\* [line[i : i + size] for i in range(0, len(line), size)] for line k of
\* length n: the slices, as (line, from, to)
RECURSIVE Slices(_, _, _, _)
Slices(k, n, i, size) ==
    IF i >= n THEN <<>>
    ELSE <<[line |-> k, from |-> i,
            to |-> IF i + size < n THEN i + size ELSE n]>>
         \o Slices(k, n, i + size, size)

RECURSIVE ChunksFrom(_, _, _)
ChunksFrom(lines, k, size) ==
    IF k > Len(lines) THEN <<>>
    ELSE Slices(k, lines[k], 0, size) \o ChunksFrom(lines, k + 1, size)

split_lines(full_ident, channel, text) ==
    ChunksFrom(splitlines(text, 0, FALSE), 1,
               max_chunk_size(full_ident, channel))

InitSplit ==
    /\ Init0 /\ kind = "commands"
    /\ TrigIdle
    /\ CleanIdle
    /\ ParseIdle
    /\ RenderIdle
    /\ AddressIdle /\ SendIdle /\ KeysIdle /\ GptKeyIdle /\ GptIdle
    /\ IrcIdle /\ IrcBootIdle /\ NatsLifeIdle
    /\ sp_full_ident = 0
    /\ sp_text \in ReplyTexts
    /\ sp_width \in CharWidths
    /\ sp_channel \in ChannelLens
    /\ sp_chunks = <<>>
    /\ sp_done = FALSE

\* irc_received_join: any JOIN the server relays sets full_ident to
\* ":" + the joiner's nick!ident@host + " "
IrcReceivedJoin(who) ==
    /\ ~sp_done
    /\ sp_full_ident' = 1 + IdentLen[who] + 1
    /\ UNCHANGED <<notSplit, sp_text, sp_width, sp_channel, sp_chunks,
                   sp_done>>

\* callback_receive_workload renders the reply: split_lines
SplitReply ==
    /\ ~sp_done
    /\ sp_done' = TRUE
    /\ sp_chunks' = split_lines(sp_full_ident, sp_channel, sp_text)
    /\ UNCHANGED <<notSplit, sp_full_ident, sp_text, sp_width, sp_channel>>

NextSplit ==
    \/ \E who \in Joiners : IrcReceivedJoin(who)
    \/ SplitReply

SpecSplit == InitSplit /\ [][NextSplit]_vars

----------------------------------------------------------------------------
(* SpecRender: FrontendIRC.callback_receive_workload with send_cmd and     *)
(* send_line. A string built by an f-string is the sequence of its pieces. *)
(* The reply texts are one short line each, so split_lines returns the     *)
(* rendered message as its only chunk.                                     *)

RenderUsers == {"alice", "bob"}
RenderChannels == {"#room", "#b"}
RenderTexts == {"boom", "hi"}

\* the reply fields of an envelope with their values
ReplyParts == UNION {[S -> RenderTexts] : S \in SUBSET ReplyFields}

\* image_ok: the reply-image decodes and its file can be written
RenderEnvelopes ==
    [reply : ReplyParts, user : RenderUsers, channel : RenderChannels,
     image_ok : BOOLEAN]

\* f"{self.options['uri_base']}/{filename}"
ImageUrl == <<"uri_base", "/", "filename">>

\* reply_message of callback_receive_workload: the first branch that matches
reply_message(env) ==
    LET has(f) == f \in DOMAIN env.reply IN
    IF has("reply-image") THEN <<env.user, ": I dreamed this: ">> \o ImageUrl
    ELSE IF has("reply-text") THEN <<env.user, ": ", env.reply["reply-text"]>>
    ELSE IF has("reply-none") THEN <<env.user, " ", env.reply["reply-none"]>>
    ELSE IF has("error")
         THEN <<env.user, ": Dream sequence collapsed: ", env.reply["error"]>>
    ELSE IF has("usage") THEN <<env.user, ": ", env.reply["usage"]>>
    ELSE <<env.user, ": Dream sequence collapsed, unknown reason.">>

\* reply_kind of callback_receive_workload
reply_kind(env) ==
    IF /\ "reply-image" \notin DOMAIN env.reply
       /\ "reply-text" \notin DOMAIN env.reply
       /\ "reply-none" \in DOMAIN env.reply
    THEN "SILENCE" ELSE "OUTPUT"

\* the literal pieces of the f-strings that hold a space
SpacedPieces ==
    {" ", ": ", ": I dreamed this: ", ": Dream sequence collapsed: ",
     ": Dream sequence collapsed, unknown reason."}

\* " " in params[-1]
HasSpace(param) == \E i \in DOMAIN param : param[i] \in SpacedPieces

\* send_cmd("PRIVMSG", channel, chunk): the line handed to send_line; the
\* last parameter gets a ":" in front when it holds a space
send_cmd(command, channel, chunk) ==
    <<command, " ", channel, " ">>
        \o (IF HasSpace(chunk) THEN <<":">> ELSE <<>>) \o chunk

InitRender ==
    /\ Init0 /\ kind = "commands"
    /\ TrigIdle
    /\ CleanIdle
    /\ ParseIdle
    /\ AddressIdle /\ SendIdle /\ KeysIdle /\ GptKeyIdle /\ GptIdle
    /\ IrcIdle /\ IrcBootIdle /\ NatsLifeIdle /\ SplitIdle
    /\ rd_writer = "none"
    /\ rd_env = <<>>
    /\ rd_result = "pending"
    /\ rd_out = <<>>
    /\ rd_n = 0

\* boot: asyncio.open_connection succeeded
RenderConnect ==
    /\ rd_writer \in {"none", "lost"}
    /\ rd_writer' = "open"
    /\ UNCHANGED <<notRender, rd_env, rd_result, rd_out, rd_n>>

\* the connection to the IRC server is lost; self.writer stays set
RenderLose ==
    /\ rd_writer = "open"
    /\ rd_writer' = "lost"
    /\ UNCHANGED <<notRender, rd_env, rd_result, rd_out, rd_n>>

\* callback_receive_workload(queue_name, env)
ReceiveReply(env) ==
    /\ rd_n < MaxRenders
    /\ rd_n' = rd_n + 1
    /\ rd_env' = env
    /\ IF "reply-image" \in DOMAIN env.reply /\ ~env.image_ok
       THEN rd_result' = "raised" /\ rd_out' = <<>>
       ELSE IF reply_kind(env) = "SILENCE"
       THEN rd_result' = "True" /\ rd_out' = <<>>
       ELSE IF SendLineRaises(rd_writer)
       THEN rd_result' = "raised" /\ rd_out' = <<>>
       ELSE /\ rd_result' = "True"
            /\ rd_out' = <<send_cmd("PRIVMSG", env.channel,
                                     reply_message(env))>>
    /\ UNCHANGED <<notRender, rd_writer>>

NextRender ==
    \/ RenderConnect
    \/ RenderLose
    \/ \E env \in RenderEnvelopes : ReceiveReply(env)

SpecRender == InitRender /\ [][NextRender]_vars

----------------------------------------------------------------------------
(* SpecParse: Message.parse_line. A line is the sequence of its            *)
(* characters; the only whitespace of the lines below is the space.        *)

ParseChars == {":", " ", "!", "@", "a"}

\* every line of at most MaxLineLen characters of ParseChars
ShortLines == UNION {[1..n -> ParseChars] : n \in 0..MaxLineLen}

NineColons == [i \in 1..9 |-> ":"]

\* the parts longer lines are put together from
PrefixParts ==
    { <<>>,
      <<":", "n">>,
      <<":", "n", "!", "u", "@", "h">>,
      <<":", "n", "!", "u">>,
      <<":", "n", "@", "h">>,
      <<":", "n", "@", "h", "!", "u">>,
      <<":", "n", "!", "u", "!", "u", "@", "h", "@", "h">> }
Gaps == {<<" ">>, <<" ", " ">>}
CommandParts == {<<"c">>, <<"C", "c">>}
ParamParts ==
    { <<>>,
      <<"p">>,
      <<"p", " ", "p">>,
      <<":">>,
      <<":", "t", " ", "t">>,
      <<"p", " ", ":", "t", " ", " ", "t", " ">>,
      <<"p", ":", "t", " ", ":", ":", "t", " ", "p">> }
LongLines ==
    {p \o g \o c \o h \o q :
        p \in PrefixParts, g \in Gaps, c \in CommandParts, h \in Gaps,
        q \in ParamParts}

ParseLines == ShortLines \cup LongLines \cup {NineColons}

\* one character of str.upper()
UpperChar(ch) ==
    CASE ch = "a" -> "A" [] ch = "c" -> "C" [] ch = "h" -> "H"
      [] ch = "n" -> "N" [] ch = "p" -> "P" [] ch = "t" -> "T"
      [] ch = "u" -> "U" [] OTHER -> ch

\* str.upper()
upper(s) == [i \in DOMAIN s |-> UpperChar(s[i])]

\* the characters of s before its first space
RECURSIVE WordOf(_)
WordOf(s) ==
    IF s = <<>> \/ Head(s) = " " THEN <<>>
    ELSE <<Head(s)>> \o WordOf(Tail(s))

\* s.split(None, 1): nothing for a blank s, else the first word and, when
\* more than spaces follows it, the rest from its first character to the
\* end of s
split_once(s) ==
    LET t == lstrip(s)
        w == WordOf(t)
        r == lstrip(SubSeq(t, Len(w) + 1, Len(t)))
    IN  IF t = <<>> THEN <<>>
        ELSE IF r = <<>> THEN <<w>> ELSE <<w, r>>

\* ch in s
Contains(s, ch) == \E i \in DOMAIN s : s[i] = ch

\* s.split(ch, 1)[0] and s.split(ch, 1)[1] for ch in s
RECURSIVE Before(_, _)
Before(s, ch) ==
    IF s = <<>> \/ Head(s) = ch THEN <<>>
    ELSE <<Head(s)>> \o Before(Tail(s), ch)
AfterMutKeep(s, ch) == SubSeq(s, Len(Before(s, ch)) + 1, Len(s))
After(s, ch) == SubSeq(s, Len(Before(s, ch)) + 2, Len(s))

\* Prefix(name, ident, host) of parse_line, from prefix_str[1:]
Prefix(name) ==
    IF Contains(name, "!")
    THEN LET ident == After(name, "!") IN
         IF Contains(ident, "@")
         THEN [nick |-> Before(name, "!"), ident |-> Before(ident, "@"),
               host |-> After(ident, "@")]
         ELSE [nick |-> Before(name, "!"), ident |-> ident, host |-> <<>>]
    ELSE IF Contains(name, "@")
    THEN [nick |-> Before(name, "@"), ident |-> <<>>,
          host |-> After(name, "@")]
    ELSE [nick |-> name, ident |-> <<>>, host |-> <<>>]

\* prefix = None
NoPrefix == [nick |-> <<>>, ident |-> <<>>, host |-> <<>>]

\* the while loop of parse_line over what follows the command
RECURSIVE ParseParams(_)
ParseParams(line) ==
    IF line = <<>> THEN <<>>
    ELSE IF Head(line) = ":" THEN <<Tail(line)>>
    ELSE LET parts == split_once(line) IN
         <<parts[1]>>
            \o (IF Len(parts) = 2 THEN ParseParams(parts[2]) ELSE <<>>)

\* an unpacking of parse_line raised ValueError
ParseRaised ==
    [raised |-> TRUE, has_prefix |-> FALSE, prefix |-> NoPrefix,
     command |-> <<>>, params |-> <<>>]

\* Message.parse_line(line)
parse_line(line) ==
    LET has_prefix == StartsWith(line, <<":">>)
        first == split_once(line)
    IN  IF has_prefix /\ Len(first) # 2 THEN ParseRaised
        ELSE LET rest == IF has_prefix THEN first[2] ELSE line
                 parts == split_once(rest)
             IN  IF parts = <<>> THEN ParseRaised
                 ELSE [raised |-> FALSE,
                       has_prefix |-> has_prefix,
                       prefix |-> IF has_prefix THEN Prefix(Tail(first[1]))
                                  ELSE NoPrefix,
                       command |-> upper(parts[1]),
                       params |-> IF Len(parts) = 2
                                  THEN ParseParams(parts[2]) ELSE <<>>]

InitParse ==
    /\ Init0 /\ kind = "commands"
    /\ TrigIdle
    /\ CleanIdle
    /\ AddressIdle /\ SendIdle /\ KeysIdle /\ GptKeyIdle /\ GptIdle
    /\ IrcIdle /\ IrcBootIdle /\ NatsLifeIdle /\ SplitIdle /\ RenderIdle
    /\ pl_line \in ParseLines
    /\ pl_result = <<>>
    /\ pl_done = FALSE

\* Message.parse_line(pl_line) is called
ParseLine ==
    /\ ~pl_done
    /\ pl_done' = TRUE
    /\ pl_result' = parse_line(pl_line)
    /\ UNCHANGED <<notParse, pl_line>>

NextParse == ParseLine

SpecParse == InitParse /\ [][NextParse]_vars

----------------------------------------------------------------------------
(* SpecClean: DreambotWorkerBase.clean_filename. A filename is the         *)
(* sequence of its characters; "e_acute" is a letter that NFKD decomposes  *)
(* into "e" and a combining accent, "sharp_s" one that has no ASCII form.  *)

CleanChars == {"a", " ", "_", "&", ".", "e_acute", "sharp_s"}

CleanNames == UNION {[1..n -> CleanChars] : n \in 0..MaxFileLen}

\* the replace argument: its default, and the one of test_clean_filename
ReplaceArgs == {{" "}, {"&"}}

\* suffix = ".png"
Suffix == <<".", "p", "n", "g">>

\* valid_filename_chars, as far as the characters above and the suffix go
Whitelist == {"_", ".", " ", "a", "e", "p", "n", "g"}

\* for char in replace: filename = filename.replace(char, "_")
ReplaceAll(s, replace) ==
    [i \in DOMAIN s |-> IF s[i] \in replace THEN "_" ELSE s[i]]

\* unicodedata.normalize("NFKD", s).encode("ASCII", "ignore").decode()
RECURSIVE AsciiOnly(_)
AsciiOnly(s) ==
    IF s = <<>> THEN <<>>
    ELSE (CASE Head(s) = "e_acute" -> <<"e">>
            [] Head(s) = "sharp_s" -> <<>>
            [] OTHER -> <<Head(s)>>) \o AsciiOnly(Tail(s))

\* "".join(c for c in s if c in whitelist)
Whitelisted(s) == SelectSeq(s, LAMBDA c : c \in Whitelist)

\* s.replace("__", ""): the pairs found from the left
RECURSIVE DropPairs(_)
DropPairs(s) ==
    IF Len(s) < 2 THEN s
    ELSE IF s[1] = "_" /\ s[2] = "_" THEN DropPairs(Tail(Tail(s)))
    ELSE <<Head(s)>> \o DropPairs(Tail(s))

\* char_limit = os.statvfs(output_dir).f_namemax - len(suffix)
char_limit == NameMax - Len(Suffix)

\* s[:n]
Truncated(s, n) == SubSeq(s, 1, IF Len(s) < n THEN Len(s) ELSE n)

\* clean_filename(filename, replace, suffix=".png", output_dir)
clean_filename(filename, replace) ==
    Truncated(DropPairs(Whitelisted(AsciiOnly(ReplaceAll(filename, replace)))),
              char_limit) \o Suffix

InitClean ==
    /\ Init0 /\ kind = "commands"
    /\ TrigIdle
    /\ AddressIdle /\ SendIdle /\ KeysIdle /\ GptKeyIdle /\ GptIdle
    /\ IrcIdle /\ IrcBootIdle /\ NatsLifeIdle /\ SplitIdle /\ RenderIdle
    /\ ParseIdle
    /\ cf_name \in CleanNames
    /\ cf_replace \in ReplaceArgs
    /\ cf_once = <<>>
    /\ cf_twice = <<>>
    /\ cf_calls = 0

\* clean_filename is called on the name
CleanOnce ==
    /\ cf_calls = 0
    /\ cf_calls' = 1
    /\ cf_once' = clean_filename(cf_name, cf_replace)
    /\ UNCHANGED <<notClean, cf_name, cf_replace, cf_twice>>

\* clean_filename is called on what it returned
CleanTwice ==
    /\ cf_calls = 1
    /\ cf_calls' = 2
    /\ cf_twice' = clean_filename(cf_once, cf_replace)
    /\ UNCHANGED <<notClean, cf_name, cf_replace, cf_once>>

NextClean ==
    \/ CleanOnce
    \/ CleanTwice

SpecClean == InitClean /\ [][NextClean]_vars

----------------------------------------------------------------------------
(* SpecTrig: the loop of irc_received_privmsg over options["triggers"],    *)
(* for lists that repeat a trigger or hold a trigger and a prefix of it.   *)

\* the configured trigger words
TriggerWords == {<<"!">>, <<"!", "d">>}

\* options["triggers"]: every list of one or two of the words
TriggerLists == UNION {[1..n -> TriggerWords] : n \in 1..MaxTriggers}

\* for trigger in self.options["triggers"]: if text.startswith(f"{trigger} "):
\* the triggers of the list, from position i on, for which the body of the
\* loop runs; the loop has no break
RECURSIVE Dispatches(_, _, _)
Dispatches(triggers, text, i) ==
    IF i > Len(triggers) THEN <<>>
    ELSE (IF StartsWith(lstrip(text), triggers[i] \o <<" ">>)
          THEN <<triggers[i]>> ELSE <<>>)
         \o Dispatches(triggers, text, i + 1)

InitTrig ==
    /\ Init0 /\ kind = "commands"
    /\ AddressIdle /\ SendIdle /\ KeysIdle /\ GptKeyIdle /\ GptIdle
    /\ IrcIdle /\ IrcBootIdle /\ NatsLifeIdle /\ SplitIdle /\ RenderIdle
    /\ ParseIdle /\ CleanIdle
    /\ tg_triggers \in TriggerLists
    /\ tg_text \in IrcTexts
    /\ tg_calls = <<>>
    /\ tg_done = FALSE

\* irc_received_privmsg(message): one call of callback_send_workload for
\* every pass of the loop whose test holds
TrigReceivedPrivmsg ==
    /\ ~tg_done
    /\ tg_done' = TRUE
    /\ tg_calls' = Dispatches(tg_triggers, tg_text, 1)
    /\ UNCHANGED <<notTrig, tg_triggers, tg_text>>

NextTrig == TrigReceivedPrivmsg

SpecTrig == InitTrig /\ [][NextTrig]_vars

----------------------------------------------------------------------------
(* Properties *)

Busy == InCallback \cup {"returned"}

\* sequence numbers of the stream
Stream == 1..Len(published)

Newest(seq) == seq[Len(seq)]

\* the envelopes on the frontend's subject that carry the context of
\* request r: the replies delivered back for it
Replies(r) ==
    {i \in Stream : published[i].ctx = r /\ published[i].to = get_subject("fe")}

\* C1 (Spec): once the pump is done with a message, msg.ack() was called
\* for it if and only if the callback was invoked and returned something
\* other than False or raised; after a False the message is not
\* acknowledged and stays with the consumer.
C1_AckIffNotFalse ==
    \A w \in Workers :
        /\ acks[w] > 0 => result[w] \in {"None", "True", "Raise"}
        /\ (pc[w] = "loop" /\ result[w] \in {"None", "True", "Raise"})
              => acks[w] > 0
        /\ (pc[w] = "loop" /\ result[w] = "False")
              => (acks[w] = 0 /\ cur[w] \notin acked)

C1_Witness ==
    /\ pc["be"] = "loop" /\ result["be"] = "False" /\ acks["be"] = 0
    /\ pc["fe"] = "loop" /\ result["fe"] = "Raise" /\ acks["fe"] = 1

\* C2 (Spec): the callback is never running, and has never run, for a
\* worker that is not booted; a message fetched while the worker is not
\* booted is not acknowledged and is still held for the consumer, as
\* delivered-unacknowledged or queued for redelivery.
C2_HeldUntilBooted ==
    \A w \in Workers :
        /\ ~is_booted[w] => (pc[w] \notin Busy /\ result[w] \in {"unset", "skipped"})
        /\ result[w] = "skipped" =>
              /\ acks[w] = 0
              /\ cur[w] \notin acked
              /\ \/ cur[w] \in pending[w]
                 \/ \E k \in 1..Len(queue[w]) : queue[w][k] = cur[w]

C2_Witness ==
    \E w \in Workers :
        /\ ~is_booted[w]
        /\ result[w] = "skipped"
        /\ cur[w] \in pending[w]

\* C3 as stated (SpecBackend): at most one envelope comes back to the
\* frontend for a request, and every envelope published with the context
\* of a request, other than the request, is addressed to its reply-to.
C3_ExactlyOneReply ==
    \A r \in 1..nreq :
        /\ Cardinality(Replies(r)) <= 1
        /\ \A i \in Stream :
              (published[i].ctx = r /\ published[i].fields # {})
                  => published[i].to = get_subject("fe")

\* C3 amended (SpecBackend): every call of a backend's receive that
\* returns has made exactly one publish attempt through send_message, and
\* the envelope it publishes is addressed to the reply-to of the request
\* it was called with and carries that request's context.
C3_OneSendPerReceive ==
    [][ (pc["be"] \in InCallback /\ pc'["be"] = "returned") =>
          /\ sends'["be"] = 1
          /\ published' # published =>
                /\ Len(published') = Len(published) + 1
                /\ Newest(published').to = published[cur["be"]].replyTo
                /\ Newest(published').ctx = published[cur["be"]].ctx
      ]_vars

C3_Witness ==
    /\ kind = "invokeai"
    /\ pc["be"] = "returned"
    /\ sends["be"] = 1
    /\ lost["be"] = 0
    /\ \E i \in Replies(1) : published[i].fields = {"reply-none"}

\* C4 (SpecBackend): every published envelope carries at most one of the
\* reply fields.
C4_AtMostOneReplyField ==
    \A i \in Stream :
        Cardinality(published[i].fields \cap ReplyFields) <= 1

\* C5 (SpecBackend): handling the completion event of a recorded session
\* removes the session from request_cache and publishes exactly one
\* envelope, which carries reply-image and the context of the request.
C5_CompletionRemovesAndReplies ==
    [][ \A s \in Sessions :
          (evDone[s] # "done" /\ evDone'[s] = "done") =>
              /\ request_cache'[s] = NoEnv
              /\ Len(published') = Len(published) + 1
              /\ "reply-image" \in Newest(published').fields
              /\ Newest(published').ctx = request_cache[s].ctx
      ]_vars

\* C6 (SpecBackend): handling the invocation-error event of a session
\* publishes exactly one envelope with error set and leaves the session
\* absent from request_cache, and no entry is left by a receive whose
\* invoke PUT was rejected.
C6_ErrorRemovesEntry ==
    [][ /\ \A s \in Sessions :
              (s \notin evErr /\ s \in evErr') =>
                  /\ Len(published') = Len(published) + 1
                  /\ "error" \in Newest(published').fields
                  /\ request_cache'[s] = NoEnv
        /\ (pc["be"] = "posted" /\ pc'["be"] = "returned")
              => request_cache'[session] = NoEnv
      ]_vars

\* the receive of InvokeAI, called while the push channel is down, returns
NotConnectedReturn ==
    /\ kind = "invokeai"
    /\ pc["be"] = "callback"
    /\ ~sio_connected
    /\ pc'["be"] = "returned"

\* what C7 says receive then does
RefusedForLater ==
    /\ result'["be"] = "False"
    /\ sends'["be"] = 1
    /\ published' # published => "error" \in Newest(published').fields

\* what C7 says the pump then does: no ack, the message stays with the
\* consumer for redelivery
LeftUnacked ==
    (pc["be"] = "returned" /\ result["be"] = "False" /\ pc'["be"] = "loop")
        => (cur["be"] \in pending'["be"] /\ cur["be"] \notin acked')

\* C7 as stated (SpecBackend): for every request received while the push
\* channel is not connected.
C7_NotConnectedAlwaysFalse ==
    [][ (NotConnectedReturn => RefusedForLater) /\ LeftUnacked ]_vars

\* C7 amended (SpecBackend): for every request whose prompt the argument
\* parser accepts (no --help, no invalid argument) and that is received
\* while the push channel is not connected, receive makes one publish
\* attempt of an envelope with error set and returns False, and the pump
\* does not acknowledge the message, which stays with the consumer for
\* redelivery.
C7_NotConnectedParsedFalse ==
    [][ /\ (NotConnectedReturn /\ message["be"].prompt = "ok") => RefusedForLater
        /\ LeftUnacked
      ]_vars

\* the request is with the backend a second time, after its first
\* delivery was answered by an error envelope and not acknowledged
C7_Witness ==
    /\ kind = "invokeai"
    /\ redelivered = 1
    /\ pc["be"] = "callback"
    /\ cur["be"] = 1
    /\ Len(published) >= 2
    /\ published[2].fields = {"error"}
    /\ published[2].to = get_subject("fe")

\* C8 (SpecBackend): a receive in which a publish raised returns False.
C8_SendFailureReturnsFalse ==
    (pc["be"] = "returned" /\ lost["be"] > 0) => result["be"] = "False"

\* C9 (Spec): next_msg hands a message to the pump of a worker only when
\* the pump is back at the top of its loop, the callback for the previous
\* message having returned or raised and the ack decision made; the
\* message it takes is the oldest one the consumer holds.
C9_OneAtATimeInOrder ==
    [][ \A w \in Workers :
          Len(queue'[w]) < Len(queue[w]) =>
              /\ pc[w] = "loop"
              /\ queue'[w] = Tail(queue[w])
              /\ cur'[w] = Head(queue[w])
      ]_vars

\* the callback of "be" is running for message 1 while message 2 waits in
\* its consumer, and the task of "fe" has a subscription of its own
C9_Witness ==
    /\ pc["be"] = "callback"
    /\ cur["be"] = 1
    /\ queue["be"] = <<2>>
    /\ pc["fe"] = "loop"

\* C10 (Spec): one warning was logged per BadRequest rejection; the task
\* has not ended unless it was cancelled by shutdown; and as long as no
\* subscription attempt has succeeded the task is at the subscription
\* attempt or in its sleep and the callback has not been invoked.
C10_RejectedSubscriptionRetries ==
    \A w \in Workers :
        /\ warnings[w] = rejects[w]
        /\ pc[w] = "cancelled" => shutting_down
        /\ (~subscribed[w] /\ nm_state = "running")
              => pc[w] \in {"top", "sleep5"}
        /\ ~subscribed[w] => (result[w] = "unset" /\ cur[w] = 0)

C10_Witness ==
    \E w \in Workers :
        /\ rejects[w] = 2
        /\ warnings[w] = 2
        /\ subscribed[w]
        /\ result[w] \in Returned

\* the address the claim prescribes for a worker, written out
PrescribedAddress(t) ==
    IF t.subname = <<>>
    THEN t.end \o <<".">> \o t.name
    ELSE t.end \o <<".">> \o t.name \o <<".">> \o
         [i \in 1..Len(t.subname) |->
             IF t.subname[i] = "." THEN "_" ELSE t.subname[i]]

\* C11 (SpecAddress): the address given to a worker is end.name, or
\* end.name.subname with the dots of subname replaced by "_", and two
\* workers that differ in (end, name, subname) have different addresses.
C11_AddressFormulaAndDistinct ==
    /\ \A i \in DOMAIN wk_address :
          wk_address[i] # <<>> => wk_address[i] = PrescribedAddress(wk[i])
    /\ \A i, j \in DOMAIN wk_address :
          (i # j /\ wk_address[i] # <<>> /\ wk_address[j] # <<>>)
              => wk_address[i] # wk_address[j]

\* C12 (SpecAddress): the durable and queue-group name of a worker is its
\* address with "." replaced by "_", and two workers with different
\* addresses have different durable names.
C12_DurableFromAddress ==
    /\ \A i \in DOMAIN wk_durable :
          wk_durable[i] # <<>>
              => wk_durable[i] = str_replace(wk_address[i], ".", "_")
    /\ \A i, j \in DOMAIN wk_durable :
          (i # j /\ wk_durable[i] # <<>> /\ wk_durable[j] # <<>>
                 /\ wk_address[i] # wk_address[j])
              => wk_durable[i] # wk_durable[j]

C14_SwapOnlyOwnAddress ==
    [][ snd_calls' = snd_calls + 1 =>
          /\ snd_msg["to"] = snd_address =>
                /\ snd_msg'["to"] = snd_msg["reply-to"]
                /\ snd_msg'["reply-to"] = snd_address
          /\ snd_msg["to"] # snd_address =>
                /\ snd_msg'["to"] = snd_msg["to"]
                /\ snd_msg'["reply-to"] = snd_msg["reply-to"]
          /\ snd_calls >= 1 => snd_msg' = snd_msg
          /\ snd_wire' # snd_wire =>
                /\ Newest(snd_wire').subject = snd_msg'["to"]
                /\ json_loads(Newest(snd_wire').payload)["to"] = snd_msg'["to"]
                /\ json_loads(Newest(snd_wire').payload)["reply-to"]
                      = snd_msg'["reply-to"]
      ]_vars

\* the same envelope was sent twice by the worker it was addressed to and
\* went to the originator both times
C14_Witness ==
    /\ snd_calls = 2
    /\ Len(snd_wire) = 2
    /\ snd_wire[1] = snd_wire[2]
    /\ snd_wire[1].subject # snd_address
    /\ snd_msg["reply-to"] = snd_address
    /\ snd_msg["to"] # snd_address

\* C15 (SpecKeys): every envelope a backend publishes for a request holds
\* every key of the request other than to and reply-to, with the value it
\* had in the request.
C15_RequestKeysKept ==
    \A i \in 1..Len(kx_out) :
        \A k \in DOMAIN kx_req \ {"to", "reply-to"} :
            k \in DOMAIN kx_out[i] /\ kx_out[i][k] = kx_req[k]

\* InvokeAI has answered a request that carried an unknown key three
\* times: from receive and twice from its handlers
C15_Witness ==
    /\ kx_kind = "invokeai"
    /\ "x-unknown" \in DOMAIN kx_req
    /\ Len(kx_out) = 3
    /\ "reply-none" \in DOMAIN kx_out[1]
    /\ "reply-image" \in DOMAIN kx_out[3]
    /\ kx_out[3]["x-unknown"] = kx_req["x-unknown"]

\* C16 (SpecBackend): every reply published for a request whose prompt
\* asks for help carries usage, and neither error nor reply-text.
C16_HelpRepliesWithUsage ==
    \A i \in Stream :
        (published[i].prompt = "help" /\ published[i].fields # {})
            => /\ "usage" \in published[i].fields
               /\ "error" \notin published[i].fields
               /\ "reply-text" \notin published[i].fields

\* C17 (SpecBackend): a receive called with a prompt of invalid arguments
\* ends by returning True, the process still running, after exactly one
\* publish attempt, of the request with error as its only reply field.
C17_BadArgumentsAnswered ==
    [][ (pc["be"] = "callback" /\ message["be"].prompt = "bad"
            /\ pc'["be"] # "callback") =>
          /\ pc'["be"] = "returned"
          /\ result'["be"] = "True"
          /\ sends'["be"] = 1
          /\ published' # published =>
                /\ Len(published') = Len(published) + 1
                /\ Newest(published').fields = {"error"}
                /\ Newest(published').ctx = message["be"].ctx
      ]_vars

C17_Witness ==
    /\ kind = "commands"
    /\ pc["be"] = "returned"
    /\ published[cur["be"]].prompt = "bad"
    /\ result["be"] = "True"
    /\ lost["be"] = 0
    /\ Newest(published).fields = {"error"}
    /\ Newest(published).to = get_subject("fe")

\* C18 (SpecGptKey): two requests whose (reply-to, channel, user) differ
\* use different entries of the conversation cache.
C18_DistinctTuplesDistinctKeys ==
    \A i, j \in DOMAIN gk_key :
        (gk_key[i] # <<>> /\ gk_key[j] # <<>> /\ gk_req[i] # gk_req[j])
            => gk_key[i] # gk_key[j]

\* the entry of the request handled last, before and after it
EntryBefore(req) ==
    IF cache_name_for_prompt(req.user) \in DOMAIN conversation_cache
    THEN conversation_cache[cache_name_for_prompt(req.user)]
    ELSE <<SystemTurn>>

\* the turns the claim prescribes for the entry after the request
PrescribedTurns(req) ==
    (IF req.followup THEN EntryBefore(req) ELSE <<SystemTurn>>)
        \o <<UserTurn(req), AssistantTurn(Completion(req))>>

\* C19 as stated (SpecGpt): every request without --followup leaves its
\* entry as system turn, user turn, assistant reply; every request with
\* --followup leaves the earlier turns followed by its user turn and the
\* assistant reply.
C19_EveryRequestAppendsBoth ==
    [][gp_n' = gp_n + 1 =>
        /\ cache_name_for_prompt(gp_last'.user) \in DOMAIN conversation_cache'
        /\ conversation_cache'[cache_name_for_prompt(gp_last'.user)]
              = PrescribedTurns(gp_last')]_vars

\* C19 (SpecGpt): a request for a completion whose API call succeeds leaves
\* its entry as system turn, user turn, assistant reply when it has no
\* --followup, and as the turns already there (the system turn if the entry
\* is new) followed by its user turn and the assistant reply when it has.
C19_CompletedChatAppendsBoth ==
    [][(gp_n' = gp_n + 1 /\ gp_last'.mode = "chat" /\ gp_last'.api = "ok") =>
        /\ cache_name_for_prompt(gp_last'.user) \in DOMAIN conversation_cache'
        /\ conversation_cache'[cache_name_for_prompt(gp_last'.user)]
              = PrescribedTurns(gp_last')]_vars

\* a --followup completion has been added to an entry that already held a
\* completed exchange
C19_Witness ==
    /\ gp_last # <<>>
    /\ gp_last.followup /\ gp_last.mode = "chat" /\ gp_last.api = "ok"
    /\ Len(conversation_cache[cache_name_for_prompt(gp_last.user)]) >= 5
    /\ gp_reply.field = "reply-text"

\* the first characters of every backend's bus address
BackendPrefix == <<"b", "a", "c", "k", "e", "n", "d", ".">>

\* C20 (SpecIrc): a PRIVMSG whose text begins with a configured trigger and
\* a space is dispatched as an envelope with to = a backend address,
\* reply-to = the frontend's own address, trigger = the matched trigger,
\* prompt = the text after the trigger and the space, server = the IRC host,
\* channel = the target, user = the sender's nick and frontend = "irc".
C20_PrivmsgEnvelope ==
    \A i \in DOMAIN IrcTriggers :
        (irc_msg # <<>> /\ Triggered(irc_msg, IrcTriggers[i])) =>
            \E k \in DOMAIN irc_dispatched :
                /\ StartsWith(irc_dispatched[k].to, BackendPrefix)
                /\ irc_dispatched[k].replyTo = irc_self.address
                /\ irc_dispatched[k].trigger = IrcTriggers[i]
                /\ IrcTriggers[i] \o <<" ">> \o irc_dispatched[k].prompt
                      = lstrip(irc_msg.text)
                /\ irc_dispatched[k].server = irc_self.server.host
                /\ irc_dispatched[k].channel = target(irc_msg)
                /\ irc_dispatched[k].user = source(irc_msg)
                /\ irc_dispatched[k].frontend = "irc"

\* a step of the read loop that handled numeric 443
Received443 ==
    /\ ib_pc = "reading" /\ ib_line' = "443"
    /\ ib_shutdowns' = ib_shutdowns /\ ib_cli' = ib_cli

\* C21 (SpecIrcBoot): handling numeric 443 appends one "_" to the nickname
\* and hands exactly one line to send_line, NICK with the new nickname; no
\* step shortens the nickname, and the NICK of a reconnect carries the
\* nickname as it is then.
C21_RenickAppendsOne ==
    [][ /\ Len(nickname') >= Len(nickname)
        /\ Received443 =>
              /\ nickname' = Append(nickname, "_")
              /\ ib_wrote' = <<NickLine(nickname')>>
        /\ (ib_pc = "connecting" /\ ib_pc' = "reading") =>
              /\ nickname' = nickname
              /\ ib_wrote'[1] = NickLine(nickname)
      ]_vars

\* the nickname was lengthened twice, the connection was lost, and the new
\* connection has registered with the lengthened nickname
C21_Witness ==
    /\ Len(nickname) = Len(ConfiguredNick) + 2
    /\ ib_pc = "reading" /\ ib_line = ""
    /\ ib_loss = "none"
    /\ ib_wrote = <<NickLine(nickname), UserLine>>

\* C22 (FairSpecIrcBoot): boot ends only after shutdown has cleared
\* should_reconnect, and every loss of the connection is followed by a new
\* connection attempt unless shutdown is requested meanwhile.
C22_LossThenReconnect ==
    /\ [](ib_pc \in {"returned", "raised"} => ~should_reconnect)
    /\ (ib_pc = "closing" /\ ib_loss # "none")
          ~> (ib_pc = "connecting" \/ ~should_reconnect)

\* C23 (SpecIrcBoot): once shutdown has been called, boot does not call
\* open_connection again.
C23_NoConnectAfterShutdown ==
    [][ib_shutdowns > 0 => ~(ib_pc # "connecting" /\ ib_pc' = "connecting")]_vars

\* C24 (FairSpecIrcBoot): after shutdown has been called on a running
\* boot, boot eventually ends.
C24_ShutdownEndsBoot ==
    (ib_shutdowns > 0 /\ ib_pc \in BootAwaits) ~> (ib_pc \in BootEnded)

\* C25 (SpecNatsLife): the bus connection is closed only when shutdown's
\* grace period is over, every subscription task having been cancelled
\* before.
C25_CloseAfterGrace ==
    ns_conn = "closed" =>
        /\ ns_shutdown = "done"
        /\ \A w \in Workers : ns_task[w] = "cancelled"

\* C26 (Spec): when nats.connect fails with NoServersError, boot has made
\* that one attempt and makes no other, no worker has an address or a
\* subscribe task, and boot has returned: nothing of the manager runs
\* afterwards.
C26_NoServersBootReturns ==
    [][ /\ nm_state' = "failed" =>
              /\ nm_state \in {"init", "failed"}
              /\ \A w \in Workers :
                    /\ address'[w] = ""
                    /\ pc'[w] = "idle"
                    /\ ~subscribed'[w]
        /\ nm_state = "failed" =>
              /\ nm_state' = "failed"
              /\ pc' = pc /\ address' = address
      ]_vars

\* the connection failed while the workers themselves have booted
C26_Witness ==
    /\ nm_state = "failed"
    /\ \A w \in Workers : is_booted[w] /\ address[w] = "" /\ pc[w] = "idle"

\* bytes of the line the server relays for a chunk:
\* ":<nick>!<ident>@<host> PRIVMSG <target> :<chunk>"
RelayedBytes(c) ==
    1 + IdentLen["bot"] + 9 + sp_channel + 2 + (c.to - c.from) * sp_width

\* C27 (SpecSplit): every line emitted for a reply is at most 510 bytes
\* long as the server relays it.
C27_LinesWithinLimit ==
    sp_done => \A i \in DOMAIN sp_chunks : RelayedBytes(sp_chunks[i]) <= 510

\* the chunks emitted for line k of the reply, in the order of emission
ChunksOfLine(k) == SelectSeq(sp_chunks, LAMBDA c : c.line = k)

\* characters of the reply outside its line breaks
RECURSIVE TextLen(_)
TextLen(text) ==
    IF text = <<>> THEN 0
    ELSE (IF Head(text) = NL THEN 0 ELSE Head(text)) + TextLen(Tail(text))

\* C28 (SpecSplit): for a reply longer than the per-line budget, the chunks
\* come line by line in the order of the reply, every line of the reply,
\* empty ones included, has its chunks, and the chunks of a line put
\* together are that line.
C28_ChunksGiveBackLines ==
    (sp_done /\ TextLen(sp_text) > max_chunk_size(sp_full_ident, sp_channel))
    => LET lines == splitlines(sp_text, 0, FALSE) IN
        /\ \A i, j \in DOMAIN sp_chunks :
              i < j => sp_chunks[i].line <= sp_chunks[j].line
        /\ \A k \in DOMAIN lines :
              LET cs == ChunksOfLine(k) IN
                /\ cs # <<>>
                /\ cs[1].from = 0
                /\ cs[Len(cs)].to = lines[k]
                /\ \A i \in 1..(Len(cs) - 1) : cs[i].to = cs[i + 1].from

\* the line of a PRIVMSG to channel whose text holds a space
PrivmsgLine(channel, text) == <<"PRIVMSG", " ", channel, " ", ":">> \o text

\* C29 (SpecRender): callback_receive_workload always returns True, and an
\* envelope with one reply field, or none, is rendered as one PRIVMSG to its
\* channel: reply-text as "<user>: <text>", error as "<user>: Dream sequence
\* collapsed: <error>", usage as "<user>: <usage>", no reply field as
\* "<user>: Dream sequence collapsed, unknown reason."; reply-none sends no
\* PRIVMSG.
C29_RenderedReply ==
    rd_result # "pending" =>
        LET fields == DOMAIN rd_env.reply
            sent(text) ==
                rd_out = <<PrivmsgLine(rd_env.channel,
                                       <<rd_env.user>> \o text)>>
        IN
        /\ rd_result = "True"
        /\ fields = {"reply-text"} =>
              sent(<<": ", rd_env.reply["reply-text"]>>)
        /\ fields = {"error"} =>
              sent(<<": Dream sequence collapsed: ", rd_env.reply["error"]>>)
        /\ fields = {"usage"} => sent(<<": ", rd_env.reply["usage"]>>)
        /\ fields = {} =>
              sent(<<": Dream sequence collapsed, unknown reason.">>)
        /\ fields = {"reply-none"} => rd_out = <<>>

\* where the words of a line begin: a word is a longest run without spaces
WordStarts(line) ==
    {i \in DOMAIN line : line[i] # " " /\ (i = 1 \/ line[i - 1] = " ")}

\* the position where the k-th word of the line begins
NthStart(line, k) ==
    CHOOSE i \in WordStarts(line) :
        Cardinality({j \in WordStarts(line) : j < i}) = k - 1

\* the k-th word of the line
NthWord(line, k) ==
    LET i == NthStart(line, k)
        e == CHOOSE j \in i..Len(line) :
                /\ \A x \in i..j : line[x] # " "
                /\ (j = Len(line) \/ line[j + 1] = " ")
    IN  SubSeq(line, i, e)

\* C30 (SpecParse): parse_line raises on the lines without a command, the
\* empty line and ":::::::::" among them, and on no other line. On every
\* other line it returns the prefix, the upper-cased command and the
\* parameters: no prefix when the line does not begin with ":"; a prefix
\* without "!" and "@" is the nick, with empty ident and host; a prefix
\* "n!u@h" gives nick n, ident u and host h; the words after the command
\* are the parameters, up to the first one that begins with ":", which is
\* the last parameter and runs to the end of the line, spaces included.
C30_ParseLine ==
    pl_done =>
        LET line == pl_line
            r == pl_result
            hasp == line # <<>> /\ line[1] = ":"
            n == Cardinality(WordStarts(line))
            ci == IF hasp THEN 2 ELSE 1
        IN
        /\ line \in {<<>>, NineColons} => r.raised
        /\ r.raised <=> n < ci
        /\ ~r.raised =>
            /\ r.has_prefix = hasp
            /\ r.command = upper(NthWord(line, ci))
            /\ hasp =>
                LET p == Tail(NthWord(line, 1)) IN
                /\ (~Contains(p, "!") /\ ~Contains(p, "@")) =>
                      r.prefix = [nick |-> p, ident |-> <<>>, host |-> <<>>]
                /\ (\E i, j \in DOMAIN p :
                        i < j /\ p[i] = "!" /\ p[j] = "@") =>
                      /\ p = r.prefix.nick \o <<"!">> \o r.prefix.ident
                                \o <<"@">> \o r.prefix.host
                      /\ ~Contains(r.prefix.nick, "!")
                      /\ ~Contains(r.prefix.ident, "@")
            /\ LET trailing ==
                     {k \in (ci + 1)..n : NthWord(line, k)[1] = ":"}
               IN
               IF trailing = {}
               THEN r.params = [k \in 1..(n - ci) |-> NthWord(line, ci + k)]
               ELSE LET k0 == CHOOSE k \in trailing :
                                 \A x \in trailing : k <= x
                    IN
                    /\ Len(r.params) = k0 - ci
                    /\ \A k \in 1..(k0 - ci - 1) :
                          r.params[k] = NthWord(line, ci + k)
                    /\ r.params[k0 - ci] =
                          SubSeq(line, NthStart(line, k0) + 1, Len(line))

\* a line with a prefix n!u@h, a command and a last parameter that holds a
\* space has been parsed
C30_Witness ==
    /\ pl_done
    /\ ~pl_result.raised
    /\ pl_result.has_prefix
    /\ pl_result.prefix.ident # <<>>
    /\ pl_result.prefix.host # <<>>
    /\ Len(pl_result.params) >= 2
    /\ Contains(pl_result.params[Len(pl_result.params)], " ")

\* C30 as stated: parse_line raises on the empty line and on ":::::::::"
\* and returns on every other line.
C30_RaisesOnlyOnTheTwo ==
    pl_done => (pl_result.raised <=> pl_line \in {<<>>, NineColons})

\* C31 (SpecClean): cleaning a cleaned filename gives the cleaned filename
\* back.
C31_CleanIdempotent ==
    cf_calls = 2 => cf_twice = cf_once

\* the positions of a pump inside "while not self.shutting_down" of line 126
PumpStates == {"loop", "returned"} \cup InCallback

\* C32 (SpecPump): whatever is raised while one message is handled (by
\* json.loads, by the worker's callback_receive_workload or by msg.ack()),
\* the pump stays inside its loop: it leaves the loop only when the manager
\* shuts down and its task is cancelled.
C32_PumpNeverEnds ==
    [][\A w \in Workers :
          (pc[w] \in PumpStates /\ pc'[w] \notin PumpStates)
              => (shutting_down' /\ pc'[w] = "cancelled")]_vars

\* the callback raised, the msg.ack() of the handler raised as well, and
\* the pump is back at next_msg with the manager still running
C32_Witness ==
    \E w \in Workers :
        /\ pc[w] = "loop"
        /\ ~shutting_down
        /\ result[w] = "Raise"
        /\ acks[w] = 1
        /\ cur[w] \notin acked

\* the indices of the messages waiting in the queue of worker w
Queued(w) == {queue[w][k] : k \in DOMAIN queue[w]}

\* C39 (SpecPump): a payload that is no JSON never reaches a worker's
\* callback and is never acknowledged; after its fetch the pump is back at
\* next_msg and the message stays with the broker, queued or awaiting
\* redelivery.
C39_MalformedNeverAcked ==
    /\ \A w \in Workers :
          /\ pc[w] \in InCallback \cup {"returned"}
                => IsJson(published[cur[w]])
          /\ result[w] = "undecodable" => pc[w] \in {"loop", "cancelled"}
    /\ \A i \in DOMAIN published :
          ~IsJson(published[i])
              => /\ i \notin acked
                 /\ \E w \in Workers : i \in pending[w] \cup Queued(w)

\* a pump has fetched a malformed payload, is back at next_msg, and the
\* message awaits redelivery
C39_Witness ==
    \E w \in Workers :
        /\ result[w] = "undecodable"
        /\ pc[w] = "loop"
        /\ ~IsJson(published[cur[w]])
        /\ cur[w] \in pending[w]

\* C35 (SpecSplit): full_ident is empty or holds the bot's own
\* nick!ident@host: a JOIN the server relays for another user leaves it as
\* it was.
C35_FullIdentFromOwnJoin ==
    sp_full_ident \in {0, 1 + IdentLen["bot"] + 1}

\* the text begins, after its leading spaces, with one of the configured
\* triggers and a space
TextTriggered ==
    \E i \in DOMAIN tg_triggers :
        StartsWith(lstrip(tg_text), tg_triggers[i] \o <<" ">>)

C36_OneEnvelopeWithoutDuplicates ==
    (tg_done /\ \A i, j \in DOMAIN tg_triggers :
                    tg_triggers[i] = tg_triggers[j] => i = j)
        => Len(tg_calls) = (IF TextTriggered THEN 1 ELSE 0)

\* C37 (SpecBackend): every envelope a push-channel handler of the InvokeAI
\* backend publishes is addressed to the frontend the request came from,
\* wherever the receive call of that request stands.
C37_HandlerRepliesToFrontend ==
    [][\A s \in Sessions :
          handlerPubs'[s] > handlerPubs[s]
              => Newest(published').to = address["fe"]]_vars

\* the same for the handlers that run after receive has made the swap
C37_AfterSwapToFrontend ==
    [][\A s \in Sessions :
          (handlerPubs'[s] > handlerPubs[s] /\ request_cache[s].to # address["be"])
              => Newest(published').to = address["fe"]]_vars

\* C40 (SpecGpt): a completion call that fails is answered with an error
\* and leaves the entry ending with the user turn of that request, with no
\* assistant turn after it; a later --followup completion request for an
\* entry that ends with such a turn sends the whole entry, that turn
\* included, followed by its own user turn.
C40_FailedTurnStays ==
    [][gp_n' = gp_n + 1 =>
        LET req == gp_last'
            key == cache_name_for_prompt(req.user)
        IN  /\ (req.mode = "chat" /\ req.api = "fail") =>
                  /\ gp_reply'.field = "error"
                  /\ key \in DOMAIN conversation_cache'
                  /\ Newest(conversation_cache'[key]) = UserTurn(req)
            /\ (/\ req.mode = "chat" /\ req.followup
                /\ key \in DOMAIN conversation_cache
                /\ Newest(conversation_cache[key]).role = "user") =>
                  gp_context' = Append(conversation_cache[key], UserTurn(req))
       ]_vars

\* a --followup completion request was sent with the user turn of an
\* earlier, failed request in front of its own
C40_Witness ==
    /\ gp_last # <<>>
    /\ gp_last.followup /\ gp_last.mode = "chat"
    /\ Len(gp_context) >= 3
    /\ gp_context[Len(gp_context) - 1].role = "user"
    /\ gp_context[Len(gp_context)] = UserTurn(gp_last)

\* C33 (SpecIrcBoot): each time open_connection succeeds, the first
\* connection and every reconnect, NICK with the nickname as it is then and
\* USER are the two lines written, in this order, and no line is written
\* by anyone before them: while no connection has been made no line is
\* written at all; is_booted becomes true in no other step.
C33_HandshakeFirst ==
    [][/\ (ib_pc = "connecting" /\ ib_pc' = "reading")
            => /\ ib_wrote' = <<NickLine(nickname), UserLine>>
               /\ ib_booted'
       /\ (~ib_booted /\ ib_booted')
            => ib_wrote' = <<NickLine(nickname), UserLine>>
       /\ (ib_writer = "none" /\ ib_writer' = "none") => ib_wrote' = <<>>
       /\ (ib_writer # "open" /\ ib_writer' = "open")
            => /\ Len(ib_wrote') = 2
               /\ ib_wrote'[1] = NickLine(nickname)
               /\ ib_wrote'[2] = UserLine
      ]_vars

\* a reconnect after a renick has just sent NICK with the longer nickname
\* and USER, with is_booted set since the first connection
C33_Witness ==
    /\ ib_pc = "reading"
    /\ ib_writer = "open"
    /\ nickname # ConfiguredNick
    /\ ib_wrote = <<NickLine(nickname), UserLine>>
    /\ ib_booted
    /\ ib_line = ""

\* the lines of ib_wrote that are JOINs
JoinsWritten == {k \in DOMAIN ib_wrote : ib_wrote[k][1] = "JOIN"}

\* C34 (SpecIrcBoot): handling a 001 on a live connection writes one JOIN
\* for every configured channel, in the configured order, and nothing
\* else; a JOIN is written only by the handling of a 001 read from the
\* current connection.
C34_JoinOn001 ==
    /\ (ib_line = "001" /\ ib_loss = "none")
          => /\ Len(ib_wrote) = Len(Channels)
             /\ \A k \in DOMAIN ib_wrote :
                   ib_wrote[k] = <<"JOIN", Channels[k]>>
    /\ JoinsWritten # {} => ib_line = "001"

\* after a renick, the 001 of the server has been answered with the two
\* JOINs
C34_Witness ==
    /\ ib_line = "001"
    /\ ib_pc = "reading"
    /\ ib_writer = "open"
    /\ nickname # ConfiguredNick
    /\ Len(ib_wrote) = 2
    /\ JoinsWritten = {1, 2}

\* C38 (SpecIrcBoot): once set, is_booted stays set, whatever happens to
\* the connection; the pump passes a reply envelope to
\* callback_receive_workload exactly when is_booted is set, and calls
\* msg.ack() for each envelope it passed, whether the PRIVMSG was sent or the
\* callback raised.
C38_BootedForGood ==
    [][/\ ib_booted => ib_booted'
       /\ ib_delivered' # ib_delivered
            => /\ ib_booted
               /\ ib_delivered' = ib_delivered + 1
               /\ ib_acks' = ib_acks + 1
               /\ ib_pump' = (IF ib_writer = "open" THEN "sent" ELSE "raised")
       /\ (ib_booted /\ ib_pump' # ib_pump) => ib_delivered' = ib_delivered + 1
       /\ ib_acks' # ib_acks => ib_delivered' # ib_delivered
      ]_vars

\* during the backoff after a lost connection the pump passed a reply
\* envelope to the frontend, the callback raised, and the envelope was
\* acknowledged
C38_Witness ==
    /\ ib_pc = "sleeping"
    /\ ib_booted
    /\ ib_writer # "open"
    /\ ib_pump = "raised"
    /\ ib_acks = ib_delivered
    /\ ib_acks >= 1
    /\ ib_wrote = <<ReplyLine>>

====
